---------------------------- MODULE Spec2Model ----------------------------
(***************************************************************************)
(* Verification model of the poker-helper analysis pipeline.               *)
(*                                                                         *)
(*  Part I   ScreenCaptureEngine (src/src/core/screen_capture.py): the     *)
(*           capture thread(s), the controller calling                     *)
(*           start_continuous_capture / stop_capture, and the consumer     *)
(*           calling get_latest_frame, interleaved statement by statement. *)
(*  Part II  HandEvaluator (src/src/ai/hand_evaluator.py): card strings,   *)
(*           their conversion to integers, the 5/6/7-card evaluation and   *)
(*           the HandRank order, as pure operators.                        *)
(***************************************************************************)
EXTENDS Integers, Sequences, FiniteSets, TLC

VARIABLES
    \* ---- ScreenCaptureEngine ------------------------------------------
    max_queue_size,   \* self.max_queue_size, fixed at construction
    frame_queue,      \* self._frame_queue: FIFO of CaptureResult
    stop_event,       \* self._stop_event.is_set()
    is_capturing,     \* self._is_capturing
    capture_thread,   \* self._capture_thread: 0 is None, else a thread id
    error_count,      \* self._error_count
    clock,            \* number of CaptureResults made so far (timestamps)
    tpc,              \* position of each capture thread in _capture_loop
    tresult,          \* local variable `result` of each capture thread
    tslept,           \* TRUE iff the timeout of the thread's wait elapsed
    cpc,              \* position of the controller thread
    c_in_start,       \* TRUE iff stop_capture runs inside start_continuous_capture
    \* ---- HandEvaluator --------------------------------------------------
    cards,            \* the list of card strings handed to evaluate_hand
    rank,             \* what evaluate_hand(cards) returned (or raised)
    int_rank,         \* what _evaluate_5/6/7_cards returned on the encoded cards
    rank1,            \* compare_hands: rank of hand1
    rank2,            \* compare_hands: rank of hand2
    compare_result,   \* compare_hands: the value returned
    \* ---- EquityCalculator ------------------------------------------------
    num_simulations,  \* self.num_simulations, fixed at construction
    num_opponents,    \* calculate_equity: argument num_opponents
    hole_cards,       \* calculate_equity: argument hole_cards
    community_cards,  \* calculate_equity: argument community_cards
    wins,             \* calculate_equity: local wins
    ties,             \* calculate_equity: local ties
    trial,            \* number of iterations of the simulation loop done
    opponents_cards,  \* local opponents_cards of the last iteration
    board_cards,      \* local board_cards of the last iteration
    player_strength,  \* local player_strength of the last iteration
    max_opponent_strength, \* local max_opponent_strength of the last iteration
    equity,           \* what calculate_equity returned (or raised)
    \* ---- CardDetector (fusion) -------------------------------------------
    detections,       \* _merge_detections: argument detections
    final_detections, \* _merge_detections: the list returned
    merged,           \* TRUE iff _merge_detections has returned for detections
    \* ---- AIAnalysisEngine and DecisionManager ----------------------------
    simulation_count, \* AIAnalysisEngine(simulation_count)
    game_state,       \* the GameState of the cycle
    analysis,         \* the HandAnalysis returned by analyze_hand
    decision,         \* the Decision returned by process_and_output
    dpc,              \* how far the cycle is: "idle", "state", "analysed",
                      \* "decided", or "raised" (process_and_output raised)
    \* ---- CardDetector.detect_cards ---------------------------------------
    yolo_detector,    \* TRUE iff self.yolo_detector is not None
    yolo_detections,  \* what self.yolo_detector.detect_cards returns
    template_detections, \* what self.template_detector.detect_cards returns
    method,           \* detect_cards: argument method
    filtered_detections, \* detect_cards: the list returned
    detected,         \* TRUE iff detect_cards has returned
    \* ---- TemplateCardDetector._non_max_suppression -----------------------
    candidates,       \* _non_max_suppression: argument detections
    filtered,         \* _non_max_suppression: the list returned
    suppressed,       \* TRUE iff _non_max_suppression has returned
    \* ---- ScreenCaptureEngine, capture interval ---------------------------
    capture_interval, \* self.capture_interval, in hundredths of a second
    \* ---- DecisionManager, history ----------------------------------------
    calls,            \* synthesize_recommendation calls made so far
    decision_counter, \* self._decision_counter
    decisions,        \* self.decision_history.decisions
    last_decision,    \* self._last_decision
    decisions_made,   \* self.stats["decisions_made"]
    \* ---- PokerAnalysisSystem._main_loop and PerformanceMonitor -----------
    is_running,       \* self.is_running
    lpc,              \* _main_loop: "init" not entered, "loop", "exited"
    cycles,           \* iterations of the loop so far
    last,             \* what the last iteration got and did
    frames_dequeued,  \* frames get_latest_frame has handed out
    decisions_out,    \* decisions process_and_output has returned
    alert_callback,   \* monitor.alert_callbacks: "none", "ok" or "raises"
    alerts,           \* len(monitor.alerts)
    total_operations, \* monitor.total_operations
    last_op           \* the last record_operation call: what it did

capVars == <<max_queue_size, frame_queue, stop_event, is_capturing,
             capture_thread, error_count, clock, tpc, tresult, tslept, cpc,
             c_in_start>>

evalVars == <<cards, rank, int_rank>>

orderVars == <<rank1, rank2, compare_result>>

equityVars == <<num_simulations, num_opponents, hole_cards, community_cards,
                wins, ties, trial, opponents_cards, board_cards,
                player_strength, max_opponent_strength, equity>>

fusionVars == <<detections, final_detections, merged>>

decisionVars == <<simulation_count, game_state, analysis, decision, dpc>>

detectVars == <<yolo_detector, yolo_detections, template_detections, method,
                filtered_detections, detected>>

\* The variables of the components after the analysis cycle.
nmsVars == <<candidates, filtered, suppressed>>

intervalVars == <<capture_interval>>

historyVars == <<calls, decision_counter, decisions, last_decision,
                 decisions_made>>

loopVars == <<is_running, lpc, cycles, last, frames_dequeued, decisions_out>>

monitorVars == <<alert_callback, alerts, total_operations, last_op>>

moreVars == <<detectVars, nmsVars, intervalVars, historyVars, loopVars,
              monitorVars>>

\* The variables of the components after the first three.
restVars == <<equityVars, fusionVars, decisionVars, moreVars>>

vars == <<capVars, evalVars, orderVars, restVars>>

(***************************************************************************)
(* Bounds of the model.                                                    *)
(***************************************************************************)
MaxQueueSize == 1
MaxFrames == 3
MaxThreads == 2
DeckSize == 13
MaxCards == 7
MaxInputCards == 8
MaxTrials == 2
MaxOpponents == 2
MaxDetections == 3
MaxCandidates == 3
MaxCalls == 4
MaxCycles == 2
MaxOperations == 2

\* calculate_equity has not returned.
NotReturned == [num |-> -1, den |-> -1]

\* No call of calculate_equity is under way.
EquityIdle ==
    /\ num_simulations = 1
    /\ num_opponents = 1
    /\ hole_cards = <<>>
    /\ community_cards = <<>>
    /\ wins = 0
    /\ ties = 0
    /\ trial = 0
    /\ opponents_cards = <<>>
    /\ board_cards = <<>>
    /\ player_strength = 0
    /\ max_opponent_strength = 0
    /\ equity = NotReturned

\* No detections were handed to the fusion.
FusionIdle ==
    /\ detections = <<>>
    /\ final_detections = <<>>
    /\ merged = FALSE

\* An Optional[float]: None, or the float v (pot and bet in whole units).
Missing == [some |-> FALSE, v |-> 0]

Given(x) == [some |-> TRUE, v |-> x]

\* GameInfo(pot_size, current_bet); the other fields are not read by the
\* analysis.
GameInfo(pot_size_, current_bet_) ==
    [pot_size |-> pot_size_, current_bet |-> current_bet_]

\* GameState(timestamp, hole_cards, game_info); timestamp is "time" for a
\* finite float and "nan" for float('nan').
GameState(timestamp_, hole_cards_, game_info_) ==
    [timestamp |-> timestamp_, hole_cards |-> hole_cards_,
     game_info |-> game_info_]

\* HandStrength; category, potential and description are texts and a
\* constant that no later step reads.
HandStrength(raw_strength_, equity_) ==
    [raw_strength |-> raw_strength_, equity |-> equity_]

\* Recommendation; amount and alternative_actions keep their defaults.
Recommendation(action_, confidence_, reasoning_, expected_value_, risk_) ==
    [action |-> action_, confidence |-> confidence_, reasoning |-> reasoning_,
     expected_value |-> expected_value_, risk_assessment |-> risk_]

\* HandAnalysis; odds are fractions [num, den].
HandAnalysis(hand_strength_, pot_odds_, implied_odds_, recommendation_) ==
    [hand_strength |-> hand_strength_, pot_odds |-> pot_odds_,
     implied_odds |-> implied_odds_, recommendation |-> recommendation_]

\* Decision
Decision(rec, hand_strength_, pot_odds_, urgency_) ==
    [recommended_action |-> rec.action, confidence |-> rec.confidence,
     hand_strength |-> hand_strength_.raw_strength,
     equity |-> hand_strength_.equity, pot_odds |-> pot_odds_,
     expected_value |-> rec.expected_value, reasoning |-> rec.reasoning,
     risk_assessment |-> rec.risk_assessment, urgency |-> urgency_]

\* 0.0 as a fraction
ZeroOdds == [num |-> 0, den |-> 1]

\* No game state, analysis or decision yet.
NoGameState == GameState("time", <<>>, GameInfo(Missing, Missing))

NoAnalysis ==
    HandAnalysis(HandStrength(0, 0), ZeroOdds, ZeroOdds,
                 Recommendation("none", 0, "", 0, ""))

NoDecision ==
    Decision(NoAnalysis.recommendation, NoAnalysis.hand_strength, ZeroOdds,
             "none")

\* No analysis cycle is under way.
DecisionIdle ==
    /\ simulation_count = 1000
    /\ game_state = NoGameState
    /\ analysis = NoAnalysis
    /\ decision = NoDecision
    /\ dpc = "idle"

\* No call of detect_cards is under way.
DetectIdle ==
    /\ yolo_detector = FALSE
    /\ yolo_detections = <<>>
    /\ template_detections = <<>>
    /\ method = "hybrid"
    /\ filtered_detections = <<>>
    /\ detected = FALSE

\* The components after the analysis cycle are idle.
\* No call of _non_max_suppression is under way.
NmsIdle ==
    /\ candidates = <<>>
    /\ filtered = <<>>
    /\ suppressed = FALSE

\* The capture interval is the default of the constructor, 1.0.
IntervalIdle == capture_interval = 100

\* self._last_decision = None
NoLastDecision == [decision_id |-> 0, recommended_action |-> "none"]

\* DecisionManager.__init__: no decision was made yet.
HistoryIdle ==
    /\ calls = 0
    /\ decision_counter = 0
    /\ decisions = <<>>
    /\ last_decision = NoLastDecision
    /\ decisions_made = 0

\* No iteration of the main loop yet.
NoCycle ==
    [frame |-> "none", hole_cards |-> 0, pot_size |-> FALSE,
     confidence_score |-> 0, total_time |-> 0, analysed |-> FALSE,
     decided |-> FALSE, warned |-> FALSE, raised |-> FALSE,
     psutil_failed |-> FALSE]

\* No record_operation call yet.
NoOperation ==
    [processing_time_ms |-> 0, accuracy |-> Missing, raised_alerts |-> 0,
     psutil_failed |-> FALSE, returned |-> TRUE]

\* PokerAnalysisSystem.__init__: the system is not running.
LoopIdle ==
    /\ is_running = FALSE
    /\ lpc = "init"
    /\ cycles = 0
    /\ last = NoCycle
    /\ frames_dequeued = 0
    /\ decisions_out = 0

\* PerformanceMonitor.__init__: no alert, no callback, no operation.
MonitorIdle ==
    /\ alert_callback = "none"
    /\ alerts = 0
    /\ total_operations = 0
    /\ last_op = NoOperation

MoreIdle ==
    /\ DetectIdle /\ NmsIdle /\ IntervalIdle /\ HistoryIdle
    /\ LoopIdle /\ MonitorIdle

\* The components after the first three are idle.
RestIdle == EquityIdle /\ FusionIdle /\ DecisionIdle /\ MoreIdle

(***************************************************************************)
(*                    Part I: ScreenCaptureEngine                          *)
(***************************************************************************)
Threads == 1..MaxThreads

\* CaptureResult: only the fields the loop and the queue look at.
CaptureResult(ts, ok) == [timestamp |-> ts, success |-> ok]

\* Python's None where a CaptureResult is expected.
None == [timestamp |-> 0, success |-> FALSE]

\* queue.Queue.full(): 0 < maxsize <= qsize(); maxsize <= 0 is unbounded.
QueueFull(q) == max_queue_size > 0 /\ Len(q) >= max_queue_size

\* Threads executing backend.capture_region right now.
InCapture == {t \in Threads : tpc[t] = "capture"}

\* Threads not yet created by start_continuous_capture.
Unborn == {t \in Threads : tpc[t] = "unborn"}

\* threading.Thread.is_alive()
IsAlive(t) == tpc[t] \notin {"unborn", "done"}

CaptureInit ==
    /\ max_queue_size \in 0..MaxQueueSize
    /\ frame_queue = <<>>
    /\ stop_event = FALSE
    /\ is_capturing = FALSE
    /\ capture_thread = 0
    /\ error_count = 0
    /\ clock = 0
    /\ tpc = [t \in Threads |-> "unborn"]
    /\ tresult = [t \in Threads |-> None]
    /\ tslept = [t \in Threads |-> FALSE]
    /\ cpc = "idle"
    /\ c_in_start = FALSE

\* ---- _capture_loop ------------------------------------------------------
\* _frame_callback is None after construction and no operation of the model
\* sets it, so lines 439-443 fall through.  _capture_count (lines 346, 422)
\* is a statistic nothing reads back and is left out.

\* line 418: while not self._stop_event.is_set()
LoopCheck(t) ==
    /\ tpc[t] = "loop"
    /\ IF stop_event
         THEN tpc' = [tpc EXCEPT ![t] = "done"]
         ELSE /\ clock + Cardinality(InCapture) < MaxFrames
              /\ tpc' = [tpc EXCEPT ![t] = "capture"]
    /\ UNCHANGED <<max_queue_size, frame_queue, stop_event, is_capturing,
                   capture_thread, error_count, clock, tresult, tslept, cpc,
                   c_in_start,
                   evalVars, orderVars, restVars>>

\* lines 421-425: the backend returns a CaptureResult (success or not).
CaptureReturns(t) ==
    /\ tpc[t] = "capture"
    /\ \E ok \in BOOLEAN :
         /\ tresult' = [tresult EXCEPT ![t] = CaptureResult(clock + 1, ok)]
         /\ error_count' = IF ok THEN error_count ELSE error_count + 1
    /\ clock' = clock + 1
    /\ tpc' = [tpc EXCEPT ![t] = "put"]
    /\ UNCHANGED <<max_queue_size, frame_queue, stop_event, is_capturing,
                   capture_thread, tslept, cpc, c_in_start,
                   evalVars, orderVars, restVars>>

\* The loop without the outer handler of lines 448-451: an exception of the
\* backend leaves _capture_loop and ends the thread.
CaptureRaisesEscapes(t) ==
    /\ tpc[t] = "capture"
    /\ clock' = clock + 1
    /\ tpc' = [tpc EXCEPT ![t] = "done"]
    /\ UNCHANGED <<max_queue_size, frame_queue, stop_event, is_capturing,
                   capture_thread, error_count, tresult, tslept, cpc,
                   c_in_start,
                   evalVars, orderVars, restVars>>

\* lines 421, 448-451: the backend raises; the outer handler counts the
\* error and pauses (self._stop_event.wait(0.1)).
CaptureRaises(t) ==
    /\ tpc[t] = "capture"
    /\ clock' = clock + 1
    /\ error_count' = error_count + 1
    /\ tpc' = [tpc EXCEPT ![t] = "wait"]
    /\ UNCHANGED <<max_queue_size, frame_queue, stop_event, is_capturing,
                   capture_thread, tresult, tslept, cpc, c_in_start,
                   evalVars, orderVars, restVars>>

\* The local `result` once the queue section is left: it is not read again
\* before line 421 assigns it anew.
Forget(t) == [tresult EXCEPT ![t] = None]

\* lines 428-430: self._frame_queue.put_nowait(result)
PutNowait(t) ==
    /\ tpc[t] = "put"
    /\ IF QueueFull(frame_queue)
         THEN /\ tpc' = [tpc EXCEPT ![t] = "evict"]
              /\ UNCHANGED <<frame_queue, tresult>>
         ELSE /\ frame_queue' = Append(frame_queue, tresult[t])
              /\ tpc' = [tpc EXCEPT ![t] = "wait"]
              /\ tresult' = Forget(t)
    /\ UNCHANGED <<max_queue_size, stop_event, is_capturing, capture_thread,
                   error_count, clock, tslept, cpc, c_in_start,
                   evalVars, orderVars, restVars>>

\* lines 432-433, 435-436: self._frame_queue.get_nowait(); queue.Empty: pass
EvictOldest(t) ==
    /\ tpc[t] = "evict"
    /\ IF frame_queue = <<>>
         THEN /\ tpc' = [tpc EXCEPT ![t] = "wait"]
              /\ tresult' = Forget(t)
              /\ UNCHANGED frame_queue
         ELSE /\ frame_queue' = Tail(frame_queue)
              /\ tpc' = [tpc EXCEPT ![t] = "reput"]
              /\ UNCHANGED tresult
    /\ UNCHANGED <<max_queue_size, stop_event, is_capturing, capture_thread,
                   error_count, clock, tslept, cpc, c_in_start,
                   evalVars, orderVars, restVars>>

\* line 434: the second put_nowait; queue.Full is not caught by the inner
\* handler and reaches the outer one (lines 448-451).
PutAgain(t) ==
    /\ tpc[t] = "reput"
    /\ IF QueueFull(frame_queue)
         THEN /\ error_count' = error_count + 1
              /\ UNCHANGED frame_queue
         ELSE /\ frame_queue' = Append(frame_queue, tresult[t])
              /\ UNCHANGED error_count
    /\ tpc' = [tpc EXCEPT ![t] = "wait"]
    /\ tresult' = Forget(t)
    /\ UNCHANGED <<max_queue_size, stop_event, is_capturing, capture_thread,
                   clock, tslept, cpc, c_in_start,
                   evalVars, orderVars, restVars>>

\* lines 446, 451: time passes for a thread inside Event.wait(timeout); a
\* set event wakes the waiter at once, so no time passes for it then.
WaitTick(t) ==
    /\ tpc[t] = "wait"
    /\ ~stop_event
    /\ ~tslept[t]
    /\ tslept' = [tslept EXCEPT ![t] = TRUE]
    /\ UNCHANGED <<max_queue_size, frame_queue, stop_event, is_capturing,
                   capture_thread, error_count, clock, tpc, tresult, cpc,
                   c_in_start,
                   evalVars, orderVars, restVars>>

\* lines 446, 451: Event.wait returns: the event is set or the timeout elapsed.
WaitReturns(t) ==
    /\ tpc[t] = "wait"
    /\ stop_event \/ tslept[t]
    /\ tpc' = [tpc EXCEPT ![t] = "loop"]
    /\ tslept' = [tslept EXCEPT ![t] = FALSE]
    /\ UNCHANGED <<max_queue_size, frame_queue, stop_event, is_capturing,
                   capture_thread, error_count, clock, tresult, cpc,
                   c_in_start,
                   evalVars, orderVars, restVars>>

ThreadStep(t) ==
    \/ LoopCheck(t)
    \/ CaptureReturns(t)
    \/ CaptureRaises(t)
    \/ PutNowait(t)
    \/ EvictOldest(t)
    \/ PutAgain(t)
    \/ WaitTick(t)
    \/ WaitReturns(t)

\* ---- stop_capture -------------------------------------------------------

\* lines 359-363: early return, or set the event and clear the flag.
StopBegin(fromStart) ==
    IF ~is_capturing
      THEN /\ cpc' = IF fromStart THEN "start_clear" ELSE "idle"
           /\ UNCHANGED <<stop_event, is_capturing, c_in_start>>
      ELSE /\ stop_event' = TRUE
           /\ is_capturing' = FALSE
           /\ c_in_start' = fromStart
           /\ cpc' = "join"

StopCapture ==
    /\ cpc = "idle"
    /\ StopBegin(FALSE)
    /\ UNCHANGED <<max_queue_size, frame_queue,
                   capture_thread, error_count, clock, tpc,
                   tresult, tslept,
                   evalVars, orderVars, restVars>>

\* lines 365-366: join(timeout=2.0) returns because the thread ended, or
\* because 2 s elapsed while the thread was inside the backend's capture
\* (the call of the loop that can take that long).
JoinReturns ==
    /\ cpc = "join"
    /\ IF capture_thread = 0 THEN TRUE
       ELSE ~IsAlive(capture_thread) \/ tpc[capture_thread] = "capture"
    /\ cpc' = "drain"
    /\ UNCHANGED <<max_queue_size, frame_queue, stop_event,
                   is_capturing, capture_thread, error_count,
                   clock, tpc, tresult, tslept, c_in_start,
                   evalVars, orderVars, restVars>>

\* lines 369-373: one round of the drain loop.  empty() followed by
\* get_nowait() is one step: a consumer that empties the queue in between
\* makes get_nowait raise queue.Empty and the loop break, which is the exit
\* that empty() takes when the consumer is scheduled first.
DrainStep ==
    /\ cpc = "drain"
    /\ IF frame_queue = <<>>
         THEN /\ cpc' = IF c_in_start THEN "start_clear" ELSE "idle"
              /\ c_in_start' = FALSE
              /\ UNCHANGED frame_queue
         ELSE /\ frame_queue' = Tail(frame_queue)
              /\ UNCHANGED <<cpc, c_in_start>>
    /\ UNCHANGED <<max_queue_size, stop_event, is_capturing,
                   capture_thread, error_count, clock, tpc,
                   tresult, tslept,
                   evalVars, orderVars, restVars>>

\* ---- start_continuous_capture ---------------------------------------------

\* lines 339-340: if self._is_capturing: self.stop_capture()
StartContinuousCapture ==
    /\ cpc = "idle"
    /\ Unborn # {}
    /\ StopBegin(TRUE)
    /\ UNCHANGED <<max_queue_size, frame_queue,
                   capture_thread, error_count, clock, tpc,
                   tresult, tslept,
                   evalVars, orderVars, restVars>>

\* lines 342-344: region stored, event cleared, flag raised.
StartClear ==
    /\ cpc = "start_clear"
    /\ stop_event' = FALSE
    /\ is_capturing' = TRUE
    /\ cpc' = "start_spawn"
    /\ UNCHANGED <<max_queue_size, frame_queue,
                   capture_thread, error_count, clock, tpc,
                   tresult, tslept, c_in_start,
                   evalVars, orderVars, restVars>>

\* lines 345-355: counters reset, a new thread created and started; the new
\* thread finds _capture_region set (line 415) and enters the loop.
StartSpawn ==
    /\ cpc = "start_spawn"
    /\ LET t == CHOOSE u \in Unborn : \A v \in Unborn : u <= v
       IN  /\ capture_thread' = t
           /\ tpc' = [tpc EXCEPT ![t] = "loop"]
    /\ error_count' = 0
    /\ cpc' = "idle"
    /\ UNCHANGED <<max_queue_size, frame_queue, stop_event,
                   is_capturing, clock, tresult, tslept, c_in_start,
                   evalVars, orderVars, restVars>>

\* ---- get_latest_frame ------------------------------------------------------

\* lines 382-385: the value get_latest_frame returns on queue q:
\* get_nowait() hands out the head of the FIFO, queue.Empty becomes None.
GetLatestFrameResult(q) == IF q = <<>> THEN None ELSE Head(q)

\* lines 382-385: get_latest_frame removes what it returns.
GetLatestFrame ==
    /\ frame_queue' = IF frame_queue = <<>> THEN <<>> ELSE Tail(frame_queue)
    /\ UNCHANGED <<max_queue_size, stop_event, is_capturing,
                   capture_thread, error_count, clock, tpc,
                   tresult, tslept, cpc, c_in_start,
                   evalVars, orderVars, restVars>>

CaptureNext ==
    \/ \E t \in Threads : ThreadStep(t)
    \/ StopCapture
    \/ JoinReturns
    \/ DrainStep
    \/ StartContinuousCapture
    \/ StartClear
    \/ StartSpawn
    \/ GetLatestFrame

(***************************************************************************)
(*                       Part II: HandEvaluator                            *)
(***************************************************************************)

\* A card string is the pair of its two characters: "Ah" is <<"A", "h">>.
RANKS == <<"2", "3", "4", "5", "6", "7", "8", "9", "T", "J", "Q", "K", "A">>
SUITS == <<"s", "h", "d", "c">>

\* str.upper() on one character (the characters card strings are made of).
UpperChar(ch) ==
    CASE ch = "s" -> "S" [] ch = "h" -> "H" [] ch = "d" -> "D"
      [] ch = "c" -> "C" [] ch = "t" -> "T" [] ch = "j" -> "J"
      [] ch = "q" -> "Q" [] ch = "k" -> "K" [] ch = "a" -> "A"
      [] OTHER -> ch

\* card.upper()
Upper(card) == [k \in DOMAIN card |-> UpperChar(card[k])]

Pow2(j) == IF j = 0 THEN 1 ELSE IF j = 1 THEN 2 ELSE IF j = 2 THEN 4 ELSE 8

\* _init_card_map: key f"{rank}{suit}", value i | (0x1000 << j).
card_map ==
    [key \in {<<RANKS[i], SUITS[j]>> : i \in 1..13, j \in 1..4} |->
        LET i == CHOOSE x \in 1..13 : RANKS[x] = key[1]
            j == CHOOSE y \in 1..4 : SUITS[y] = key[2]
        IN  (i - 1) + 4096 * Pow2(j - 1)]

\* self.card_map.get(key, 0)
CardMapGet(key) == IF key \in DOMAIN card_map THEN card_map[key] ELSE 0

\* c & 0xF and c & 0xF000
RankBits(c) == c % 16
SuitBits(c) == ((c \div 4096) % 16) * 4096

\* Optional[int]: None, and the truth value Python's `if x:` gives it.
NoneInt == -1
Truthy(x) == x # NoneInt /\ x # 0

RECURSIVE SortedAsc(_)
\* sorted(list(S)) for a set S of integers
SortedAsc(S) ==
    IF S = {} THEN <<>>
    ELSE LET m == CHOOSE x \in S : \A y \in S : x <= y
         IN  <<m>> \o SortedAsc(S \ {m})

RECURSIVE SortedDesc(_)
\* sorted(xs, reverse=True) for a list xs of integers
SortedDesc(xs) ==
    IF xs = <<>> THEN <<>>
    ELSE LET i == CHOOSE k \in 1..Len(xs) : \A l \in 1..Len(xs) : xs[l] <= xs[k]
         IN  <<xs[i]>> \o SortedDesc(SubSeq(xs, 1, i - 1) \o SubSeq(xs, i + 1, Len(xs)))

\* xs[:n]
Take(xs, n) == SubSeq(xs, 1, IF n < Len(xs) THEN n ELSE Len(xs))

\* _check_flush
check_flush(cs) ==
    IF cs = <<>> THEN NoneInt
    ELSE IF \A k \in 2..Len(cs) : SuitBits(cs[k]) = SuitBits(cs[1])
         THEN SuitBits(cs[1]) \div 4096
         ELSE NoneInt

\* _check_straight
check_straight(cs) ==
    LET ranks == SortedAsc({RankBits(cs[k]) : k \in 1..Len(cs)})
        runs == {i \in 1..(Len(ranks) - 4) : ranks[i + 4] - ranks[i] = 4}
    IN  IF Len(ranks) < 5 THEN NoneInt
        ELSE IF runs # {}
             THEN ranks[(CHOOSE i \in runs : \A k \in runs : i <= k) + 4]
             ELSE IF ranks = <<0, 1, 2, 3, 12>> THEN 3 ELSE NoneInt

\* _count_ranks: the keys of the dict, in insertion order ...
RankKeys(cs) ==
    LET ranks == [k \in 1..Len(cs) |-> RankBits(cs[k])]
        first == {k \in 1..Len(cs) : \A l \in 1..(k - 1) : ranks[l] # ranks[k]}
        idx == SortedAsc(first)
    IN  [n \in 1..Len(idx) |-> ranks[idx[n]]]

\* ... and the count stored under key r.
count_ranks(cs, r) == Cardinality({k \in 1..Len(cs) : RankBits(cs[k]) = r})

\* [r for r, c in rank_counts.items() if c == n]
RanksWithCount(cs, n) ==
    LET Is(r) == count_ranks(cs, r) = n IN SelectSeq(RankKeys(cs), Is)

\* HandRank(category, rank_values, description); the description is derived
\* from the other two fields and takes no part in __lt__ and __eq__.
HandRank(cat, vals) == [category |-> cat, rank_values |-> vals]

\* _evaluate_5_cards
evaluate_5_cards(cs) ==
    LET flush_suit == check_flush(cs)
        straight_high == check_straight(cs)
        all_ranks == SortedDesc([k \in 1..Len(cs) |-> RankBits(cs[k])])
        quads == RanksWithCount(cs, 4)
        trips == RanksWithCount(cs, 3)
        pairs == RanksWithCount(cs, 2)
        singles == SortedDesc(RanksWithCount(cs, 1))
        NotQuad(r) == count_ranks(cs, r) # 4
    IN  IF Truthy(flush_suit) /\ Truthy(straight_high)
          THEN HandRank(8, <<straight_high>>)
        ELSE IF Truthy(flush_suit) THEN HandRank(5, all_ranks)
        ELSE IF Truthy(straight_high) THEN HandRank(4, <<straight_high>>)
        ELSE IF quads # <<>>
          THEN HandRank(7, <<quads[1], SelectSeq(RankKeys(cs), NotQuad)[1]>>)
        ELSE IF trips # <<>> /\ pairs # <<>>
          THEN HandRank(6, <<trips[1], pairs[1]>>)
        ELSE IF trips # <<>> THEN HandRank(3, <<trips[1]>> \o Take(singles, 2))
        ELSE IF Len(pairs) >= 2
          THEN HandRank(2, Take(SortedDesc(pairs), 2) \o <<singles[1]>>)
        ELSE IF Len(pairs) = 1
          THEN HandRank(1, <<pairs[1]>> \o Take(singles, 3))
        ELSE HandRank(0, all_ranks)

RECURSIVE ListLess(_, _)
\* Python's xs < ys on lists of integers: lexicographic, a proper prefix first.
ListLess(xs, ys) ==
    IF ys = <<>> THEN FALSE
    ELSE IF xs = <<>> THEN TRUE
    ELSE IF Head(xs) # Head(ys) THEN Head(xs) < Head(ys)
    ELSE ListLess(Tail(xs), Tail(ys))

\* A comparison that looks at the category alone.
HandRankLtCategoryOnly(a, b) == a.category < b.category

\* HandRank.__lt__
HandRankLt(a, b) ==
    IF a.category # b.category THEN a.category < b.category
    ELSE ListLess(a.rank_values, b.rank_values)

\* HandRank.__eq__
HandRankEq(a, b) ==
    a.category = b.category /\ a.rank_values = b.rank_values

\* a > b: HandRank defines no __gt__, so Python evaluates b.__lt__(a).
HandRankGt(a, b) == HandRankLt(b, a)

RECURSIVE Comb(_, _, _)
\* itertools.combinations(range(lo, n + 1), k), in the order itertools yields.
Comb(lo, n, k) ==
    IF k = 0 THEN << <<>> >>
    ELSE IF n - lo + 1 < k THEN <<>>
    ELSE LET with == Comb(lo + 1, n, k - 1)
         IN  [m \in 1..Len(with) |-> <<lo>> \o with[m]] \o Comb(lo + 1, n, k)

Combinations6 == Comb(1, 6, 5)
Combinations7 == Comb(1, 7, 5)

\* list(combo) for one index tuple of itertools.combinations(cards, 5)
Pick(cs, combo) == [k \in 1..Len(combo) |-> cs[combo[k]]]

\* best_rank before any combination was tried
NoRank == [category |-> -1, rank_values |-> <<>>]

RECURSIVE BestRank(_, _, _, _)
\* lines 223-226 and 235-238: the loop over the combinations from the m-th on
BestRank(cs, combos, m, best_rank) ==
    IF m > Len(combos) THEN best_rank
    ELSE LET r == evaluate_5_cards(Pick(cs, combos[m]))
         IN  BestRank(cs, combos, m + 1,
                      IF best_rank = NoRank \/ HandRankGt(r, best_rank)
                        THEN r ELSE best_rank)

\* _evaluate_6_cards
evaluate_6_cards(cs) == BestRank(cs, Combinations6, 1, NoRank)

\* An evaluation of seven cards that looks at the first five only.
evaluate_first_five(cs) == evaluate_5_cards(Take(cs, 5))

\* _evaluate_7_cards
evaluate_7_cards(cs) == BestRank(cs, Combinations7, 1, NoRank)

\* _evaluate_best_7
evaluate_best_7(cs) == evaluate_7_cards(cs)

\* the ValueError evaluate_hand raises
ValueError == [category |-> -2, rank_values |-> <<>>]

\* evaluate_hand, lines 114-115: card_ints
ToCardInts(hand) == [k \in 1..Len(hand) |-> CardMapGet(Upper(hand[k]))]

\* evaluate_hand
evaluate_hand(hand) ==
    IF Len(hand) < 5 THEN ValueError
    ELSE LET ints == ToCardInts(hand)
         IN  IF Len(hand) = 5 THEN evaluate_5_cards(ints)
             ELSE IF Len(hand) = 6 THEN evaluate_6_cards(ints)
             ELSE IF Len(hand) = 7 THEN evaluate_7_cards(ints)
             ELSE evaluate_best_7(Take(ints, 7))

\* compare_hands, lines 304-309, on the two ranks
compare_hands(r1, r2) ==
    IF HandRankGt(r1, r2) THEN 1 ELSE IF HandRankLt(r1, r2) THEN -1 ELSE 0

\* The cards the model deals from: the first DeckSize cards of this order.
\* The first thirteen hold four of a kind, full houses, flushes, straights
\* (the wheel and the six-high one, suited and not) and unmade hands.
DeckOrder ==
    << <<"2","s">>, <<"2","h">>, <<"3","s">>, <<"9","s">>, <<"4","s">>,
       <<"A","s">>, <<"5","s">>, <<"3","h">>, <<"6","s">>, <<"2","d">>,
       <<"4","h">>, <<"5","h">>, <<"2","c">>, <<"K","h">>, <<"A","d">>,
       <<"6","h">>, <<"9","h">>, <<"3","d">>, <<"K","s">>, <<"4","d">> >>

Deck == 1..(IF DeckSize < Len(DeckOrder) THEN DeckSize ELSE Len(DeckOrder))

\* The place of a card in DeckOrder.
Position(card) == CHOOSE i \in 1..Len(DeckOrder) : DeckOrder[i] = card

\* The integers card_map holds for the cards of a hand.
Encoded(hand) == [k \in 1..Len(hand) |-> card_map[hand[k]]]

\* The internal evaluation of a list of 5 to 7 card integers.
evaluate_ints(ints) ==
    IF Len(ints) = 5 THEN evaluate_5_cards(ints)
    ELSE IF Len(ints) = 6 THEN evaluate_6_cards(ints)
    ELSE evaluate_7_cards(ints)

EvalIdle ==
    /\ cards = <<>>
    /\ rank = NoRank
    /\ int_rank = NoRank

OrderIdle ==
    /\ rank1 = NoRank
    /\ rank2 = NoRank
    /\ compare_result = 0

CaptureIdle ==
    /\ max_queue_size = 1
    /\ frame_queue = <<>>
    /\ stop_event = FALSE
    /\ is_capturing = FALSE
    /\ capture_thread = 0
    /\ error_count = 0
    /\ clock = 0
    /\ tpc = [t \in Threads |-> "unborn"]
    /\ tresult = [t \in Threads |-> None]
    /\ tslept = [t \in Threads |-> FALSE]
    /\ cpc = "idle"
    /\ c_in_start = FALSE

\* The caller adds the card at deck position i to the list it will pass;
\* hands are listed once, in deck order.
Deal(i) ==
    /\ Len(cards) < MaxCards
    /\ IF cards = <<>> THEN TRUE ELSE Position(cards[Len(cards)]) < i
    /\ cards' = Append(cards, DeckOrder[i])
    /\ rank' = NoRank
    /\ int_rank' = NoRank
    /\ UNCHANGED <<capVars, orderVars, restVars>>

\* evaluate_hand(cards) on the card strings
EvaluateHand ==
    /\ rank = NoRank
    /\ rank' = evaluate_hand(cards)
    /\ UNCHANGED <<cards, int_rank, capVars, orderVars, restVars>>

\* _evaluate_5/6/7_cards on the integers card_map holds for these cards
EvaluateInts ==
    /\ int_rank = NoRank
    /\ Len(cards) \in 5..7
    /\ int_rank' = evaluate_ints(Encoded(cards))
    /\ UNCHANGED <<cards, rank, capVars, orderVars, restVars>>

EvalInit == CaptureIdle /\ EvalIdle /\ OrderIdle /\ RestIdle

EvalNext ==
    \/ \E i \in Deck : Deal(i)
    \/ EvaluateHand
    \/ EvaluateInts

EvalSpec == EvalInit /\ [][EvalNext]_vars

\* What a caller may hand to evaluate_hand: cards of the deck, and strings
\* that are no card at all.
InputOrder ==
    << <<"A","h">>, <<"K","h">>, <<"Q","h">>, <<"J","h">>, <<"T","h">>,
       <<"9","s">>, <<"1","x">>, <<"A">>, <<"9","h">>, <<"9","d">> >>

\* The place of a string in InputOrder.
InputPosition(card) == CHOOSE i \in 1..Len(InputOrder) : InputOrder[i] = card

\* The caller adds the i-th string of InputOrder to the list it will pass.
DealInput(i) ==
    /\ Len(cards) < MaxInputCards
    /\ IF cards = <<>> THEN TRUE ELSE InputPosition(cards[Len(cards)]) < i
    /\ cards' = Append(cards, InputOrder[i])
    /\ rank' = NoRank
    /\ UNCHANGED <<int_rank, capVars, orderVars, restVars>>

InputInit == CaptureIdle /\ EvalIdle /\ OrderIdle /\ RestIdle

InputNext ==
    \/ \E i \in 1..Len(InputOrder) : DealInput(i)
    \/ EvaluateHand

InputSpec == InputInit /\ [][InputNext]_vars

\* Every HandRank an evaluation of cards of the deck produces: through
\* evaluate_hand, and through _evaluate_5_cards on encoded cards (the best
\* of six or seven cards is the rank of one of their five-card subsets).
ProducedRanks ==
    LET fives == Comb(1, Len(DeckOrder), 5)
        InDeck(h) == h[5] \in Deck
        hands == SelectSeq(fives, InDeck)
        Hand(m) == [k \in 1..5 |-> DeckOrder[hands[m][k]]]
    IN  {evaluate_5_cards(Encoded(Hand(m))) : m \in 1..Len(hands)}
          \cup {evaluate_hand(Hand(m)) : m \in 1..Len(hands)}

\* compare_hands, line 301: rank1 = self.evaluate_hand(hand1)
EvaluateHand1 ==
    /\ rank1 = NoRank
    /\ \E r \in ProducedRanks : rank1' = r
    /\ UNCHANGED <<rank2, compare_result, capVars, evalVars, restVars>>

\* compare_hands, lines 302-309: rank2 = self.evaluate_hand(hand2), and the
\* value returned
EvaluateHand2 ==
    /\ rank1 # NoRank
    /\ rank2 = NoRank
    /\ \E r \in ProducedRanks :
         /\ rank2' = r
         /\ compare_result' = compare_hands(rank1, r)
    /\ UNCHANGED <<rank1, capVars, evalVars, restVars>>

\* The caller has the result; the next call of compare_hands starts afresh.
CompareReturn ==
    /\ rank2 # NoRank
    /\ rank1' = NoRank
    /\ rank2' = NoRank
    /\ compare_result' = 0
    /\ UNCHANGED <<capVars, evalVars, restVars>>

OrderInit == CaptureIdle /\ EvalIdle /\ OrderIdle /\ RestIdle

OrderNext == EvaluateHand1 \/ EvaluateHand2 \/ CompareReturn

OrderSpec == OrderInit /\ [][OrderNext]_vars

(***************************************************************************)
(*                     Part III: EquityCalculator                          *)
(***************************************************************************)
\* src/src/core/ai_engine.py.  A Card is the pair of its rank and suit
\* characters, as in Part II; confidence, position and bounding box take no
\* part in the calculation.

\* The variables outside the EquityCalculator.
outsideEquity ==
    <<capVars, evalVars, orderVars, fusionVars, decisionVars, moreVars>>

\* _evaluate_hand, lines 204-215: the numerical value of a rank character.
RankValue(r) ==
    CASE r = "A" -> 14 [] r = "K" -> 13 [] r = "Q" -> 12 [] r = "J" -> 11
      [] r = "T" -> 10 [] r = "9" -> 9 [] r = "8" -> 8 [] r = "7" -> 7
      [] r = "6" -> 6 [] r = "5" -> 5 [] r = "4" -> 4 [] r = "3" -> 3
      [] r = "2" -> 2

\* max(xs) for a non-empty set of integers
Max(S) == CHOOSE x \in S : \A y \in S : y <= x

\* EquityCalculator._check_straight, on the ranks sorted in descending order
equity_check_straight(ranks) ==
    IF Len(ranks) < 5 THEN FALSE
    ELSE \/ \E i \in 1..(Len(ranks) - 4) : ranks[i] - ranks[i + 4] = 4
         \/ {14, 5, 4, 3, 2} \subseteq {ranks[k] : k \in 1..Len(ranks)}

\* EquityCalculator._evaluate_hand on all_cards = hole_cards + board_cards
equity_evaluate_hand(all_cards) ==
    LET rank_values == [k \in 1..Len(all_cards) |-> RankValue(all_cards[k][1])]
        values == {rank_values[k] : k \in 1..Len(all_cards)}
        suits == {all_cards[k][2] : k \in 1..Len(all_cards)}
        rank_counts(v) == Cardinality({k \in 1..Len(all_cards) : rank_values[k] = v})
        suit_counts(u) == Cardinality({k \in 1..Len(all_cards) : all_cards[k][2] = u})
        is_flush == \E u \in suits : suit_counts(u) >= 5
        unique_ranks == SortedDesc(SortedAsc(values))
        is_straight == equity_check_straight(unique_ranks)
        pair_counts == {v \in values : rank_counts(v) >= 2}
        Has(n) == \E v \in values : rank_counts(v) = n
        MaxWith(n) == Max({v \in values : rank_counts(v) = n})
    IN  IF is_straight /\ is_flush THEN 8000 + Max(values)
        ELSE IF Has(4) THEN 7000 + MaxWith(4)
        ELSE IF Has(3) /\ Has(2) THEN 6000
        ELSE IF is_flush THEN 5000 + Max(values)
        ELSE IF is_straight THEN 4000 + Max(values)
        ELSE IF Has(3) THEN 3000 + MaxWith(3)
        ELSE IF Cardinality(pair_counts) >= 2 THEN 2000
        ELSE IF Has(2) THEN 1000 + MaxWith(2)
        ELSE Max(values)

\* The cards the model's simulation deals with: the ones the shuffle of
\* line 137 brings to the top of the deck come from these.
EquityDeckOrder ==
    << <<"A","h">>, <<"A","d">>, <<"K","s">>,
       <<"K","h">>, <<"7","c">>, <<"7","d">>, <<"2","s">>,
       <<"K","d">>, <<"Q","c">>, <<"7","h">>, <<"2","c">>, <<"Q","h">>,
       <<"3","d">> >>

EquityDeckSize == 7 + 2 * MaxOpponents

EquityDeck == {EquityDeckOrder[i] : i \in 1..EquityDeckSize}

\* The place of a card in EquityDeckOrder.
EquityPosition(card) ==
    CHOOSE i \in 1..Len(EquityDeckOrder) : EquityDeckOrder[i] = card

\* A set of cards as a list, in the order the deck holds them.
AsList(S) ==
    LET idx == SortedAsc({EquityPosition(c) : c \in S})
    IN  [k \in 1..Len(idx) |-> EquityDeckOrder[idx[k]]]

\* The hole cards a caller passes: two of the first three cards of the deck,
\* or one card only.
HoleChoices ==
    {<<EquityDeckOrder[1], EquityDeckOrder[2]>>,
     <<EquityDeckOrder[1], EquityDeckOrder[3]>>,
     <<EquityDeckOrder[2], EquityDeckOrder[3]>>,
     <<EquityDeckOrder[1]>>}

\* The community cards a caller passes: none to four of the next four cards.
CommunityChoices == {SubSeq(EquityDeckOrder, 4, 3 + k) : k \in 0..4}

\* A slice that takes the element at b as well.
SliceThroughEnd(xs, a, b) ==
    SubSeq(xs, a + 1, IF b + 1 < Len(xs) THEN b + 1 ELSE Len(xs))

\* xs[a:b] of Python, for 0 <= a <= b
Slice(xs, a, b) == SubSeq(xs, a + 1, IF b < Len(xs) THEN b ELSE Len(xs))

\* xs with its first r elements moved to the end
Rotate(xs, r) == [k \in 1..Len(xs) |-> xs[((k + r - 1) % Len(xs)) + 1]]

\* xs back to front
Reverse(xs) == [k \in 1..Len(xs) |-> xs[Len(xs) + 1 - k]]

\* line 137, np.random.shuffle(simulation_deck): the orders the model lets
\* the shuffle produce (any order is possible; these are some of them).
Shuffles(xs) ==
    IF xs = <<>> THEN {<<>>}
    ELSE {Rotate(xs, r) : r \in 0..(Len(xs) - 1)}
           \cup {Rotate(Reverse(xs), r) : r \in 0..(Len(xs) - 1)}

\* calculate_equity is called, lines 125-135.
EquityInit ==
    /\ num_simulations \in 0..MaxTrials
    /\ num_opponents \in 0..MaxOpponents
    /\ hole_cards \in HoleChoices
    /\ community_cards \in CommunityChoices
    /\ wins = 0
    /\ ties = 0
    /\ trial = 0
    /\ opponents_cards = <<>>
    /\ board_cards = <<>>
    /\ player_strength = 0
    /\ max_opponent_strength = 0
    /\ equity = NotReturned

\* lines 125-126: if len(hole_cards) != 2: return 0.0
EquityDegenerate ==
    /\ equity = NotReturned
    /\ Len(hole_cards) # 2
    /\ equity' = [num |-> 0, den |-> 1]
    /\ UNCHANGED <<num_simulations, num_opponents, hole_cards, community_cards,
                   wins, ties, trial, opponents_cards, board_cards,
                   player_strength, max_opponent_strength, outsideEquity>>

\* lines 135-174: one iteration of the simulation loop.
EquityTrial ==
    /\ equity = NotReturned
    /\ Len(hole_cards) = 2
    /\ trial < num_simulations
    /\ LET known == {hole_cards[k] : k \in 1..2}
                       \cup {community_cards[k] : k \in 1..Len(community_cards)}
           available_cards == AsList(EquityDeck \ known)
           cards_needed == 5 - Len(community_cards)
           deck_index == 2 * num_opponents
       IN  \E simulation_deck \in Shuffles(available_cards) :
             LET opps == [i \in 1..num_opponents |->
                            Slice(simulation_deck, 2 * (i - 1), 2 * i)]
                 board == IF cards_needed > 0
                            THEN community_cards \o
                                 Slice(simulation_deck, deck_index,
                                       deck_index + cards_needed)
                            ELSE community_cards
                 mine == equity_evaluate_hand(hole_cards \o board)
                 theirs == {equity_evaluate_hand(opps[i] \o board) :
                              i \in 1..num_opponents}
                 most == IF theirs = {} THEN 0 ELSE Max(theirs)
             IN  /\ opponents_cards' = opps
                 /\ board_cards' = board
                 /\ player_strength' = mine
                 /\ max_opponent_strength' = most
                 /\ wins' = IF mine > most THEN wins + 1 ELSE wins
                 /\ ties' = IF mine = most THEN ties + 1 ELSE ties
    /\ trial' = trial + 1
    /\ UNCHANGED <<num_simulations, num_opponents, hole_cards, community_cards,
                   equity, outsideEquity>>

\* division by zero in line 177
ZeroDivisionError == [num |-> -1, den |-> 0]

\* lines 176-178: equity = (wins + ties * 0.5) / self.num_simulations, kept
\* as the fraction (2 wins + ties) / (2 num_simulations).
EquityReturn ==
    /\ equity = NotReturned
    /\ Len(hole_cards) = 2
    /\ trial >= num_simulations
    /\ equity' = IF num_simulations = 0 THEN ZeroDivisionError
                 ELSE [num |-> 2 * wins + ties, den |-> 2 * num_simulations]
    /\ UNCHANGED <<num_simulations, num_opponents, hole_cards, community_cards,
                   wins, ties, trial, opponents_cards, board_cards,
                   player_strength, max_opponent_strength, outsideEquity>>

EquityNext == EquityTrial \/ EquityReturn \/ EquityDegenerate

EquitySpecInit ==
    /\ CaptureIdle /\ EvalIdle /\ OrderIdle /\ EquityInit /\ FusionIdle
    /\ DecisionIdle /\ MoreIdle

EquitySpec == EquitySpecInit /\ [][EquityNext]_vars

(***************************************************************************)
(*                  Part IV: CardDetector, detection fusion                *)
(***************************************************************************)
\* src/src/vision/card_detector.py.  Confidences are in hundredths (95 is
\* 0.95).  The bounding box is copied from the best detection and takes no
\* part in the fusion.

\* The variables outside the fusion.
outsideFusion ==
    <<capVars, evalVars, orderVars, equityVars, decisionVars, moreVars>>

\* line 497: proximity_threshold = 50  # pixels
proximity_threshold == 50

\* line 413: self.hybrid_confidence_boost = 0.1, in hundredths
hybrid_confidence_boost == 10

\* CardDetectionResult
CardDetectionResult(rank_, suit_, confidence_, position_, method_) ==
    [rank |-> rank_, suit |-> suit_, confidence |-> confidence_,
     position |-> position_, detection_method |-> method_]

\* CardDetectionResult.card_string: f"{rank}{suit}", the pair of characters
card_string(d) == <<d.rank, d.suit>>

\* abs(x)
Abs(x) == IF x < 0 THEN -x ELSE x

\* A test of the position alone, whatever the two cards are.
ClosePositionOnly(detection, existing) ==
    /\ Abs(detection.position[1] - existing.position[1]) < proximity_threshold
    /\ Abs(detection.position[2] - existing.position[2]) < proximity_threshold

\* lines 505-507: same card and close position
SameCardAndClose(detection, existing) ==
    /\ card_string(detection) = card_string(existing)
    /\ Abs(detection.position[1] - existing.position[1]) < proximity_threshold
    /\ Abs(detection.position[2] - existing.position[2]) < proximity_threshold

RECURSIVE GroupDetections(_, _, _)
\* lines 499-515: the groups after the detections from the k-th on were placed
GroupDetections(dets, k, groups) ==
    IF k > Len(dets) THEN groups
    ELSE LET detection == dets[k]
             found == {g \in 1..Len(groups) :
                         \E e \in 1..Len(groups[g]) :
                             SameCardAndClose(detection, groups[g][e])}
         IN  IF found = {}
               THEN GroupDetections(dets, k + 1, Append(groups, <<detection>>))
               ELSE LET g == CHOOSE x \in found : \A y \in found : x <= y
                    IN  GroupDetections(dets, k + 1,
                            [groups EXCEPT ![g] = Append(@, detection)])

RECURSIVE SumOver(_, _)
\* sum(d.position[axis] for d in group)
SumOver(group, axis) ==
    IF group = <<>> THEN 0
    ELSE Head(group).position[axis] + SumOver(Tail(group), axis)

\* A consensus that keeps the first member as it is, without any boost.
consensus_without_boost(group) == group[1]

\* _create_consensus_detection, for a non-empty group
create_consensus_detection(group) ==
    LET top == Max({group[k].confidence : k \in 1..Len(group)})
        first == CHOOSE k \in 1..Len(group) :
                     /\ group[k].confidence = top
                     /\ \A l \in 1..(k - 1) : group[l].confidence # top
        best_detection == group[first]
        avg_x == SumOver(group, 1) \div Len(group)
        avg_y == SumOver(group, 2) \div Len(group)
        boost == best_detection.confidence
                    + (Len(group) - 1) * hybrid_confidence_boost
        boosted_confidence == IF boost > 100 THEN 100 ELSE boost
        methods == {group[k].detection_method : k \in 1..Len(group)}
    IN  CardDetectionResult(best_detection.rank, best_detection.suit,
            boosted_confidence, <<avg_x, avg_y>>,
            IF Cardinality(methods) > 1 THEN "hybrid"
            ELSE best_detection.detection_method)

\* _merge_detections
merge_detections(dets) ==
    IF dets = <<>> THEN <<>>
    ELSE LET groups == GroupDetections(dets, 1, <<>>)
         IN  [g \in 1..Len(groups) |->
                 IF Len(groups[g]) = 1 THEN groups[g][1]
                 ELSE create_consensus_detection(groups[g])]

\* What the two detectors may report: two cards, four places, a template
\* match of confidence 0.75 or a YOLO detection of confidence 0.95.
DetectionChoices ==
    {CardDetectionResult(c[1], c[2], m[1], pos, m[2]) :
        c \in {<<"A", "h">>, <<"K", "d">>},
        pos \in {<<0, 0>>, <<30, 0>>, <<60, 0>>, <<0, 60>>},
        m \in {<<75, "template">>, <<95, "yolo">>}}

\* _hybrid_detection, lines 469-475: one more detection joins all_detections.
AddDetection(d) ==
    /\ Len(detections) < MaxDetections
    /\ detections' = Append(detections, d)
    /\ final_detections' = <<>>
    /\ merged' = FALSE
    /\ UNCHANGED outsideFusion

\* _hybrid_detection, line 478: merged_detections = self._merge_detections(...)
MergeDetections ==
    /\ ~merged
    /\ final_detections' = merge_detections(detections)
    /\ merged' = TRUE
    /\ UNCHANGED <<detections, outsideFusion>>

FusionNext ==
    \/ \E d \in DetectionChoices : AddDetection(d)
    \/ MergeDetections

FusionInit == CaptureIdle /\ EvalIdle /\ OrderIdle /\ RestIdle

FusionSpec == FusionInit /\ [][FusionNext]_vars

(***************************************************************************)
(*             Part V: AIAnalysisEngine and DecisionManager                *)
(***************************************************************************)
\* src/src/core/ai_engine.py and src/src/core/decision_manager.py.  Equity
\* and confidence are in hundredths (70 is 0.70); pot odds are the fraction
\* current_bet / (pot_size + current_bet).  The decision counter, the
\* history, the statistics and the formatted texts of the DecisionManager
\* are not kept.

\* The variables outside the analysis cycle.
outsideDecision ==
    <<capVars, evalVars, orderVars, equityVars, fusionVars, moreVars>>

\* fraction > h / 100, for a fraction of positive denominator
OddsAbove(odds, h) == odds.num * 100 > h * odds.den

\* _calculate_pot_odds: "not x" holds of None and of 0.
calculate_pot_odds(game_info) ==
    IF \/ ~game_info.pot_size.some \/ game_info.pot_size.v = 0
       \/ ~game_info.current_bet.some \/ game_info.current_bet.v = 0
      THEN ZeroOdds
      ELSE [num |-> game_info.current_bet.v,
            den |-> game_info.pot_size.v + game_info.current_bet.v]

\* _calculate_implied_odds: pot_odds * 1.5
calculate_implied_odds(game_info) ==
    LET pot_odds == calculate_pot_odds(game_info)
    IN  [num |-> 3 * pot_odds.num, den |-> 2 * pot_odds.den]

\* What EquityCalculator.calculate_equity does for the hole cards: 0.0 for
\* other than two cards, ZeroDivisionError with no simulation (Part III,
\* EquityReturn), else one of the results of the random simulation.
EquityResults ==
    {0, 4, 5, 30, 50, 51, 70, 71, 95, 96, 100}

calculate_equity(hole_cards_) ==
    IF Len(hole_cards_) # 2 THEN {[raised |-> FALSE, value |-> 0]}
    ELSE IF simulation_count = 0 THEN {[raised |-> TRUE, value |-> 0]}
    ELSE {[raised |-> FALSE, value |-> e] : e \in EquityResults}

\* _analyze_hand_strength, given what calculate_equity returned
analyze_hand_strength(hole_cards_, outcome) ==
    IF Len(hole_cards_) # 2 THEN HandStrength(0, 0)
    ELSE HandStrength(outcome.value, outcome.value)

\* A policy whose thresholds include the boundary values.
generate_recommendation_inclusive(hand_strength, pot_odds) ==
    LET choice ==
          IF hand_strength.equity >= 70
            THEN <<"bet", 90, "Strong hand - value betting">>
          ELSE IF hand_strength.equity >= 50
            THEN <<"call", 70, "Medium strength - calling">>
          ELSE IF OddsAbove(pot_odds, 30)
            THEN <<"call", 60, "Good pot odds - calling">>
          ELSE <<"fold", 80, "Weak hand - folding">>
    IN  Recommendation(choice[1], choice[2], choice[3],
                       hand_strength.equity - 50,
                       IF choice[2] > 70 THEN "Medium" ELSE "High")

\* _generate_recommendation; implied odds, position advantage and the
\* adjustments are not read.
generate_recommendation(hand_strength, pot_odds) ==
    LET choice ==
          IF hand_strength.equity > 70
            THEN <<"bet", 90, "Strong hand - value betting">>
          ELSE IF hand_strength.equity > 50
            THEN <<"call", 70, "Medium strength - calling">>
          ELSE IF OddsAbove(pot_odds, 30)
            THEN <<"call", 60, "Good pot odds - calling">>
          ELSE <<"fold", 80, "Weak hand - folding">>
    IN  Recommendation(choice[1], choice[2], choice[3],
                       hand_strength.equity - 50,
                       IF choice[2] > 70 THEN "Medium" ELSE "High")

\* analyze_hand, lines 485-493: the safe fold returned on an exception
AnalysisError ==
    HandAnalysis(HandStrength(0, 0), ZeroOdds, ZeroOdds,
                 Recommendation("fold", 100, "Analysis error", 0, ""))

\* analyze_hand, given what calculate_equity did
analyze_hand(state, outcome) ==
    IF outcome.raised THEN AnalysisError
    ELSE LET hand_strength ==
                 analyze_hand_strength(state.hole_cards, outcome)
             pot_odds == calculate_pot_odds(state.game_info)
         IN  HandAnalysis(hand_strength, pot_odds,
                          calculate_implied_odds(state.game_info),
                          generate_recommendation(hand_strength, pot_odds))

\* _calculate_urgency
calculate_urgency(analysis_) ==
    IF \/ analysis_.recommendation.action = "all_in"
       \/ analysis_.hand_strength.equity > 95
       \/ analysis_.hand_strength.equity < 5
      THEN "high"
    ELSE IF \/ analysis_.recommendation.confidence > 80
            \/ OddsAbove(analysis_.pot_odds, 40)
      THEN "medium"
    ELSE IF analysis_.recommendation.confidence > 60 THEN "low"
    ELSE "critical"

\* synthesize_recommendation, for a game state whose timestamp int() accepts
synthesize_recommendation(analysis_) ==
    Decision(analysis_.recommendation, analysis_.hand_strength,
             analysis_.pot_odds, calculate_urgency(analysis_))

\* The game states given to the cycle: the hole cards of the performance
\* test or a single card, pot and bet absent, zero or read from the table.
PotChoices == {Missing, Given(0), Given(59), Given(60), Given(70), Given(80)}

BetChoices == {Missing, Given(0), Given(20), Given(30), Given(40), Given(41)}

GameStates ==
    {GameState(t, h, GameInfo(p, b)) :
        t \in {"time", "nan"},
        h \in {<<<<"A", "h">>, <<"K", "d">>>>, <<<<"A", "h">>>>},
        p \in PotChoices, b \in BetChoices}

\* create_ai_engine(simulation_count) and a GameState for the cycle
ProcessFrame(count, state) ==
    /\ dpc = "idle"
    /\ simulation_count' = count
    /\ game_state' = state
    /\ dpc' = "state"
    /\ UNCHANGED <<analysis, decision, outsideDecision>>

\* analysis = self.ai_engine.analyze_hand(game_state)
AnalyzeHand(outcome) ==
    /\ dpc = "state"
    /\ analysis' = analyze_hand(game_state, outcome)
    /\ dpc' = "analysed"
    /\ UNCHANGED <<simulation_count, game_state, decision, outsideDecision>>

\* decision = self.decision_manager.process_and_output(analysis, game_state):
\* int(game_state.timestamp) raises ValueError for a NaN, and nothing in
\* synthesize_recommendation or process_and_output catches it.
ProcessAndOutput ==
    /\ dpc = "analysed"
    /\ IF game_state.timestamp = "nan"
         THEN /\ dpc' = "raised"
              /\ UNCHANGED decision
         ELSE /\ decision' = synthesize_recommendation(analysis)
              /\ dpc' = "decided"
    /\ UNCHANGED <<simulation_count, game_state, analysis, outsideDecision>>

\* The next cycle starts afresh.
NextCycle ==
    /\ dpc \in {"decided", "raised"}
    /\ simulation_count' = 1000
    /\ game_state' = NoGameState
    /\ analysis' = NoAnalysis
    /\ decision' = NoDecision
    /\ dpc' = "idle"
    /\ UNCHANGED outsideDecision

DecisionNext ==
    \/ \E count \in {0, 1000}, state \in GameStates : ProcessFrame(count, state)
    \/ \E outcome \in calculate_equity(game_state.hole_cards) :
           AnalyzeHand(outcome)
    \/ ProcessAndOutput
    \/ NextCycle

DecisionInit == CaptureIdle /\ EvalIdle /\ OrderIdle /\ RestIdle

DecisionSpec == DecisionInit /\ [][DecisionNext]_vars

(***************************************************************************)
(*                   Part VI: CardDetector.detect_cards                    *)
(***************************************************************************)
\* src/src/vision/card_detector.py, lines 415-452.  The two detectors are
\* given by what they return; the statistics are not kept.

\* The variables outside detect_cards.
outsideDetect ==
    <<capVars, evalVars, orderVars, equityVars, fusionVars, decisionVars,
      nmsVars, intervalVars, historyVars, loopVars, monitorVars>>

\* line 412: self.min_confidence = 0.7, in hundredths
min_confidence == 70

\* line 444: [d for d in detections if d.confidence >= self.min_confidence]
FilterByConfidence(dets) ==
    LET Passes(d) == d.confidence >= min_confidence IN SelectSeq(dets, Passes)

\* d placed in a list sorted by falling confidence, after the elements of
\* at least its confidence (list.sort is stable).
InsertByConfidence(sorted, d) ==
    LET before == {k \in 1..Len(sorted) : sorted[k].confidence >= d.confidence}
        n == Cardinality(before)
    IN  SubSeq(sorted, 1, n) \o <<d>> \o SubSeq(sorted, n + 1, Len(sorted))

\* A list left in the order it has.
KeepOrder(dets) == dets

RECURSIVE SortByConfidenceFrom(_, _, _)
SortByConfidenceFrom(dets, k, sorted) ==
    IF k > Len(dets) THEN sorted
    ELSE SortByConfidenceFrom(dets, k + 1, InsertByConfidence(sorted, dets[k]))

\* line 447: filtered_detections.sort(key=lambda x: x.confidence, reverse=True)
SortByConfidence(dets) == SortByConfidenceFrom(dets, 1, <<>>)

\* _hybrid_detection: the YOLO detections, if there is a YOLO detector, then
\* the template detections, merged.
hybrid_detection(with_yolo, yolo, template) ==
    merge_detections((IF with_yolo THEN yolo ELSE <<>>) \o template)

\* detect_cards
detect_cards(method_, with_yolo, yolo, template) ==
    LET found ==
          IF method_ = "yolo" /\ with_yolo THEN yolo
          ELSE IF method_ = "template" THEN template
          ELSE hybrid_detection(with_yolo, yolo, template)
    IN  SortByConfidence(FilterByConfidence(found))

\* What YOLOCardDetector.detect_cards may report (conf=0.5 at line 342): two
\* cards, two places, confidence 0.60, 0.80 or 0.95.
YoloChoices ==
    {CardDetectionResult(c[1], c[2], conf, pos, "yolo") :
        c \in {<<"A", "h">>, <<"K", "d">>},
        pos \in {<<0, 0>>, <<30, 0>>},
        conf \in {60, 80, 95}}

\* What TemplateCardDetector.detect_cards may report (matches of at least
\* 0.7, line 180): two cards, two places, confidence 0.75.
TemplateChoices ==
    {CardDetectionResult(c[1], c[2], 75, pos, "template") :
        c \in {<<"A", "h">>, <<"K", "d">>},
        pos \in {<<0, 0>>, <<30, 0>>}}

\* CardDetector.__init__, lines 401-408: the YOLO detector is there or not.
CreateDetector(with_yolo) ==
    /\ yolo_detections = <<>>
    /\ template_detections = <<>>
    /\ ~detected
    /\ yolo_detector # with_yolo
    /\ yolo_detector' = with_yolo
    /\ UNCHANGED <<yolo_detections, template_detections, method,
                   filtered_detections, detected, outsideDetect>>

\* The YOLO detector finds one more card in the image.
YoloDetects(d) ==
    /\ yolo_detector
    /\ Len(yolo_detections) + Len(template_detections) < MaxDetections
    /\ yolo_detections' = Append(yolo_detections, d)
    /\ filtered_detections' = <<>>
    /\ detected' = FALSE
    /\ UNCHANGED <<yolo_detector, template_detections, method, outsideDetect>>

\* The template detector finds one more card in the image.
TemplateDetects(d) ==
    /\ Len(yolo_detections) + Len(template_detections) < MaxDetections
    /\ template_detections' = Append(template_detections, d)
    /\ filtered_detections' = <<>>
    /\ detected' = FALSE
    /\ UNCHANGED <<yolo_detector, yolo_detections, method, outsideDetect>>

\* detect_cards(image, roi, method)
DetectCards(method_) ==
    /\ ~detected
    /\ method' = method_
    /\ filtered_detections' =
          detect_cards(method_, yolo_detector, yolo_detections,
                       template_detections)
    /\ detected' = TRUE
    /\ UNCHANGED <<yolo_detector, yolo_detections, template_detections,
                   outsideDetect>>

DetectInit == CaptureIdle /\ EvalIdle /\ OrderIdle /\ RestIdle

DetectNext ==
    \/ \E with_yolo \in BOOLEAN : CreateDetector(with_yolo)
    \/ \E d \in YoloChoices : YoloDetects(d)
    \/ \E d \in TemplateChoices : TemplateDetects(d)
    \/ \E method_ \in {"yolo", "template", "hybrid"} : DetectCards(method_)

DetectSpec == DetectInit /\ [][DetectNext]_vars

(***************************************************************************)
(*          Part VII: TemplateCardDetector._non_max_suppression            *)
(***************************************************************************)
\* src/src/vision/card_detector.py, lines 221-262.  A candidate is the card,
\* the confidence in hundredths and the bounding box (x, y, width, height).

\* The variables outside the suppression.
outsideNms ==
    <<capVars, evalVars, orderVars, equityVars, fusionVars, decisionVars,
      detectVars, intervalVars, historyVars, loopVars, monitorVars>>

\* line 222: overlap_threshold: float = 0.5, in hundredths
overlap_threshold == 50

\* A CardDetectionResult with its bounding box.
BoxedDetection(card, confidence_, bounding_box_) ==
    [rank |-> card[1], suit |-> card[2], confidence |-> confidence_,
     bounding_box |-> bounding_box_]

\* max(a, b) and min(a, b)
Max2(a, b) == IF a >= b THEN a ELSE b

Min2(a, b) == IF a <= b THEN a ELSE b

\* _calculate_overlap: intersection over union, as a fraction
calculate_overlap(det1, det2) ==
    LET b1 == det1.bounding_box
        b2 == det2.bounding_box
        left == Max2(b1[1], b2[1])
        top == Max2(b1[2], b2[2])
        right == Min2(b1[1] + b1[3], b2[1] + b2[3])
        bottom == Min2(b1[2] + b1[4], b2[2] + b2[4])
        intersection == (right - left) * (bottom - top)
        union == b1[3] * b1[4] + b2[3] * b2[4] - intersection
    IN  IF left < right /\ top < bottom /\ union > 0
          THEN [num |-> intersection, den |-> union]
          ELSE ZeroOdds

RECURSIVE SuppressFrom(_, _, _)
\* lines 231-240: the accepted list after the detections from the k-th on
SuppressFrom(dets, k, accepted) ==
    IF k > Len(dets) THEN accepted
    ELSE LET detection == dets[k]
             overlaps ==
               \E a \in 1..Len(accepted) :
                 OddsAbove(calculate_overlap(detection, accepted[a]),
                           overlap_threshold)
         IN  SuppressFrom(dets, k + 1,
                 IF overlaps THEN accepted ELSE Append(accepted, detection))

\* A suppression that accepts every candidate.
accept_all(dets) == SortByConfidence(dets)

\* _non_max_suppression, with the default overlap_threshold
non_max_suppression(dets) ==
    IF dets = <<>> THEN <<>>
    ELSE SuppressFrom(SortByConfidence(dets), 1, <<>>)

\* The matches of _match_templates: two cards, boxes of 50 x 70 at x = 0, 10
\* and 20, confidence 0.75, 0.85 or 0.95.
CandidateChoices ==
    {BoxedDetection(c, conf, <<x, 0, 50, 70>>) :
        c \in {<<"A", "h">>, <<"K", "d">>},
        conf \in {75, 85, 95},
        x \in {0, 10, 20}}

\* detect_cards, lines 148-151: one more match joins the detections.
AddCandidate(d) ==
    /\ Len(candidates) < MaxCandidates
    /\ candidates' = Append(candidates, d)
    /\ filtered' = <<>>
    /\ suppressed' = FALSE
    /\ UNCHANGED outsideNms

\* detect_cards, line 154: self._non_max_suppression(detections); the sort of
\* line 228 is in place.
NonMaxSuppression ==
    /\ ~suppressed
    /\ filtered' = non_max_suppression(candidates)
    /\ candidates' = SortByConfidence(candidates)
    /\ suppressed' = TRUE
    /\ UNCHANGED outsideNms

NmsInit == CaptureIdle /\ EvalIdle /\ OrderIdle /\ RestIdle

NmsNext ==
    \/ \E d \in CandidateChoices : AddCandidate(d)
    \/ NonMaxSuppression

NmsSpec == NmsInit /\ [][NmsNext]_vars

(***************************************************************************)
(*          Part VIII: ScreenCaptureEngine, the capture interval           *)
(***************************************************************************)
\* src/src/core/screen_capture.py, lines 261 and 293-300, beside the capture
\* engine of Part I.  Intervals are in hundredths of a second.

\* The variables outside the capture engine and its interval.
outsideInterval ==
    <<evalVars, orderVars, equityVars, fusionVars, decisionVars, detectVars,
      nmsVars, historyVars, loopVars, monitorVars>>

\* An interval limited from below only.
clamp_from_below(interval) == Max2(50, interval)

\* lines 261, 300: max(0.5, min(2.0, interval))
clamp_interval(interval) == Max2(50, Min2(200, interval))

\* The intervals a caller asks for.
IntervalChoices == {0, 100, 300}

\* __init__(capture_interval, max_queue_size)
IntervalInit ==
    /\ CaptureInit
    /\ \E interval \in IntervalChoices :
          capture_interval = clamp_interval(interval)
    /\ EvalIdle /\ OrderIdle /\ EquityIdle /\ FusionIdle /\ DecisionIdle
    /\ DetectIdle /\ NmsIdle /\ HistoryIdle /\ LoopIdle /\ MonitorIdle

\* set_capture_interval(interval), at any moment
SetCaptureInterval(interval) ==
    /\ capture_interval' = clamp_interval(interval)
    /\ UNCHANGED <<capVars, outsideInterval>>

IntervalNext ==
    \/ CaptureNext
    \/ \E interval \in IntervalChoices : SetCaptureInterval(interval)

IntervalSpec == IntervalInit /\ [][IntervalNext]_vars

(***************************************************************************)
(*               Part IX: DecisionManager, decision history                *)
(***************************************************************************)
\* src/src/core/decision_manager.py.  A Decision is kept by the number in its
\* decision_id and its recommended action; the running average of the
\* confidence in the statistics is not kept.

\* The variables outside the decision history.
outsideHistory ==
    <<capVars, evalVars, orderVars, equityVars, fusionVars, decisionVars,
      detectVars, nmsVars, intervalVars, loopVars, monitorVars>>

\* line 73: max_history: int = 1000, scaled down
max_history == 2

\* DecisionHistory.add_decision
add_decision(history, decision_) ==
    LET appended == Append(history, decision_)
    IN  IF Len(appended) > max_history
          THEN SubSeq(appended, Len(appended) - max_history + 1, Len(appended))
          ELSE appended

\* synthesize_recommendation(analysis, game_state): the counter is raised
\* first (line 263); int(game_state.timestamp) at line 299 raises ValueError
\* for a NaN, before anything is stored.
SynthesizeCall(action_, timestamp_) ==
    /\ calls < MaxCalls
    /\ calls' = calls + 1
    /\ decision_counter' = decision_counter + 1
    /\ IF timestamp_ = "nan"
         THEN UNCHANGED <<decisions, last_decision, decisions_made>>
         ELSE LET made == [decision_id |-> decision_counter + 1,
                           recommended_action |-> action_]
              IN  /\ decisions' = add_decision(decisions, made)
                  /\ last_decision' = made
                  /\ decisions_made' = decisions_made + 1
    /\ UNCHANGED outsideHistory

HistoryInit == CaptureIdle /\ EvalIdle /\ OrderIdle /\ RestIdle

HistoryNext ==
    \E action_ \in {"fold", "call", "bet"}, timestamp_ \in {"time", "nan"} :
        SynthesizeCall(action_, timestamp_)

HistorySpec == HistoryInit /\ [][HistoryNext]_vars

(***************************************************************************)
(* Part X.  PokerAnalysisSystem._main_loop (src/main.py) and               *)
(* PerformanceMonitor (src/src/utils/performance.py).  Times are in        *)
(* milliseconds, confidence scores in hundredths, accuracies in            *)
(* thousandths.                                                            *)
(***************************************************************************)

outsideLoop ==
    <<capVars, evalVars, orderVars, equityVars, fusionVars, decisionVars,
      detectVars, nmsVars, intervalVars, historyVars>>

\* PerformanceMonitor.__init__, line 38: target_response_ms = 500
target_response_ms == 500

\* PerformanceMonitor.__init__, line 38: target_accuracy = 0.995
target_accuracy == 995

\* component_stats, lines 66-72: the components that have an entry
TrackedComponents ==
    {"screen_capture", "card_detection", "ocr", "ai_analysis",
     "decision_output"}

\* component_stats, lines 66-72: the entries that have an 'accuracy' key
AccuracyComponents == {"card_detection", "ocr", "ai_analysis"}

\* line 107: accuracy or 1.0 -- None and 0.0 both give 1.0
accuracy_or_one(accuracy) ==
    IF accuracy.some /\ accuracy.v # 0 THEN accuracy.v ELSE 1000

\* A validity test that looks at the hole cards only.
cards_only_valid(hole_cards_, pot_size_, confidence_score_) ==
    hole_cards_ >= 2

\* GameState.is_valid, computer_vision.py lines 86-93
is_valid(hole_cards_, pot_size_, confidence_score_) ==
    /\ hole_cards_ >= 2
    /\ pot_size_.some
    /\ confidence_score_ > 50

\* _raise_alert, lines 177-187: the alert is appended and every callback is
\* called inside try / except Exception, so the call returns whatever the
\* callback does.
raise_alert(callback) == "returned"

\* _check_performance_targets, lines 156-175: the number of alerts raised
check_performance_targets(time_ms, accuracy, memory_mb, cpu_percent) ==
      (IF time_ms > target_response_ms THEN 1 ELSE 0)
    + (IF accuracy < target_accuracy THEN 1 ELSE 0)
    + (IF memory_mb > 100 THEN 1 ELSE 0)
    + (IF cpu_percent > 50 THEN 1 ELSE 0)

\* What psutil reports at lines 99-100; ok = FALSE when the read raises
\* (psutil.NoSuchProcess, psutil.AccessDenied).
QuietResources == [ok |-> TRUE, memory_mb |-> 100, cpu_percent |-> 50]

ResourceChoices ==
    {[ok |-> FALSE, memory_mb |-> 100, cpu_percent |-> 50],
     QuietResources,
     [ok |-> TRUE, memory_mb |-> 101, cpu_percent |-> 50],
     [ok |-> TRUE, memory_mb |-> 100, cpu_percent |-> 51]}

\* record_operation, lines 87-141, as a step of the monitor: "raised" when
\* the call leaves by an exception.
record_operation(component, processing_time_ms, accuracy, res) ==
    IF ~res.ok
    THEN \* lines 99-100 raise before anything is stored
         /\ last_op' = [processing_time_ms |-> processing_time_ms,
                        accuracy |-> accuracy,
                        raised_alerts |-> 0, psutil_failed |-> TRUE,
                        returned |-> FALSE]
         /\ UNCHANGED <<alerts, total_operations, alert_callback>>
    ELSE IF /\ component \in TrackedComponents
            /\ accuracy.some
            /\ component \notin AccuracyComponents
    THEN \* line 135: prev_avg = stats['accuracy'] raises KeyError, after
         \* the counters of lines 123-126
         /\ total_operations' = total_operations + 1
         /\ last_op' = [processing_time_ms |-> processing_time_ms,
                        accuracy |-> accuracy,
                        raised_alerts |-> 0, psutil_failed |-> FALSE,
                        returned |-> FALSE]
         /\ UNCHANGED <<alerts, alert_callback>>
    ELSE LET n == check_performance_targets(processing_time_ms,
                      accuracy_or_one(accuracy), res.memory_mb,
                      res.cpu_percent)
         IN  /\ total_operations' = total_operations + 1
             /\ alerts' = alerts + n
             /\ last_op' = [processing_time_ms |-> processing_time_ms,
                            accuracy |-> accuracy,
                            raised_alerts |-> n, psutil_failed |-> FALSE,
                            returned |->
                                (n = 0 \/ raise_alert(alert_callback)
                                              = "returned")]
             /\ UNCHANGED alert_callback

\* add_alert_callback, lines 189-191; the callback returns or raises.
AddAlertCallback(callback) ==
    /\ alert_callback = "none"
    /\ alert_callback' = callback
    /\ UNCHANGED <<alerts, total_operations, last_op>>
    /\ UNCHANGED <<loopVars, outsideLoop>>

\* A component reports an operation to the monitor.
RecordOperation(component, processing_time_ms, accuracy, res) ==
    /\ total_operations < MaxOperations
    /\ record_operation(component, processing_time_ms, accuracy, res)
    /\ UNCHANGED <<loopVars, outsideLoop>>

\* start, main.py lines 114-151: is_running = True, then _main_loop.
StartSystem ==
    /\ lpc = "init"
    /\ is_running' = TRUE
    /\ lpc' = "loop"
    /\ UNCHANGED <<cycles, last, frames_dequeued, decisions_out>>
    /\ UNCHANGED <<monitorVars, outsideLoop>>

\* stop, main.py lines 157-160, called while the loop runs.
StopSystem ==
    /\ is_running
    /\ is_running' = FALSE
    /\ UNCHANGED <<lpc, cycles, last, frames_dequeued, decisions_out>>
    /\ UNCHANGED <<monitorVars, outsideLoop>>

\* line 180: while self.is_running -- the loop ends when the flag is down.
LoopExit ==
    /\ lpc = "loop"
    /\ ~is_running
    /\ lpc' = "exited"
    /\ UNCHANGED <<is_running, cycles, last, frames_dequeued, decisions_out>>
    /\ UNCHANGED <<monitorVars, outsideLoop>>

\* One iteration of _main_loop, lines 180-229, with its except clause.
\* frame is what get_latest_frame returned: "none" (None), "failed"
\* (success False), "noimage" (success True, image None) or "ok".
MainLoopCycle(frame, hole_cards_, pot_size_, confidence_, total_time, res) ==
    /\ lpc = "loop"
    /\ is_running
    /\ cycles < MaxCycles
    /\ cycles' = cycles + 1
    /\ frames_dequeued' = frames_dequeued + (IF frame = "none" THEN 0 ELSE 1)
    /\ IF frame # "ok"
       THEN /\ last' = [NoCycle EXCEPT !.frame = frame]
            /\ UNCHANGED <<decisions_out, monitorVars>>
       ELSE IF ~is_valid(hole_cards_, pot_size_, confidence_)
       THEN /\ last' = [NoCycle EXCEPT
                           !.frame = frame,
                           !.hole_cards = hole_cards_,
                           !.pot_size = pot_size_.some,
                           !.confidence_score = confidence_]
            /\ UNCHANGED <<decisions_out, monitorVars>>
       ELSE \* lines 197-216: analyze_hand, the warning of line 203,
            \* process_and_output, record_frame_processed; an exception of
            \* the monitor is caught at line 227
            /\ decisions_out' = decisions_out + 1
            /\ record_operation("frame_processing", total_time, Missing, res)
            /\ last' = [frame |-> frame,
                        hole_cards |-> hole_cards_,
                        pot_size |-> pot_size_.some,
                        confidence_score |-> confidence_,
                        total_time |-> total_time,
                        analysed |-> TRUE,
                        decided |-> TRUE,
                        warned |-> (total_time > 500),
                        raised |-> ~last_op'.returned,
                        psutil_failed |-> ~res.ok]
    /\ UNCHANGED <<is_running, lpc>>
    /\ UNCHANGED <<outsideLoop>>

LoopInit == CaptureIdle /\ EvalIdle /\ OrderIdle /\ RestIdle

LoopNext ==
    \/ StartSystem
    \/ StopSystem
    \/ LoopExit
    \/ \E callback \in {"ok", "raises"} : AddAlertCallback(callback)
    \/ \E component \in {"card_detection", "screen_capture"},
          processing_time_ms \in {500, 501},
          accuracy \in {Missing, Given(0), Given(990)},
          res \in ResourceChoices :
            RecordOperation(component, processing_time_ms, accuracy, res)
    \/ \E frame \in {"none", "failed", "noimage"} :
            MainLoopCycle(frame, 0, Missing, 0, 0, QuietResources)
    \/ \E hole_cards_ \in {1, 2},
          pot_size_ \in {Missing, Given(100)},
          confidence_score_ \in {50, 51},
          total_time \in {500, 501},
          res \in ResourceChoices :
            MainLoopCycle("ok", hole_cards_, pot_size_, confidence_score_,
                          total_time, res)

LoopSpec == LoopInit /\ [][LoopNext]_vars

Init == CaptureInit /\ EvalIdle /\ OrderIdle /\ RestIdle

Next == CaptureNext

Spec == Init /\ [][Next]_vars

(***************************************************************************)
(*                 Properties of the ScreenCaptureEngine                   *)
(***************************************************************************)

\* The frames of a queue, as a set.
Frames(q) == {q[k] : k \in 1..Len(q)}

\* Thread t leaves the queue section of an iteration (lines 428-436) in this step.
LeavesQueueSection(t) ==
    tpc[t] \in {"put", "evict", "reput"} /\ tpc'[t] = "wait"

\* C1: drop-oldest.  Whenever a capture thread completes the queue section
\* of an iteration, the frame it just captured is in the queue: directly, or
\* after the oldest frame was evicted, whatever the consumer and stop_capture
\* did in between.
C1_NewestFrameEnqueued ==
    [][\A t \in Threads :
         LeavesQueueSection(t) => tresult[t] \in Frames(frame_queue')]_vars

\* C2: the frame queue never holds more frames than the configured
\* max_queue_size, whatever capacity the engine was constructed with.
C2_QueueWithinCapacity == Len(frame_queue) <= max_queue_size

\* The most recent successfully captured frame of a queue, None without one.
MostRecentSuccessful(q) ==
    LET good == {f \in Frames(q) : f.success}
    IN  IF good = {} THEN None
        ELSE CHOOSE f \in good : \A g \in good : g.timestamp <= f.timestamp

\* A step that can only be a call of get_latest_frame: nothing else is about
\* to take a frame off the queue.
GetLatestFrameCall ==
    /\ GetLatestFrame
    /\ cpc # "drain"
    /\ \A t \in Threads : tpc[t] # "evict"

\* C3: get_latest_frame returns the most recent successfully captured frame
\* among those queued, or None when there is none: never an older frame while
\* a newer one is queued, never a frame whose success flag is false.
C3_ReturnsMostRecentSuccessful ==
    [][GetLatestFrameCall =>
         GetLatestFrameResult(frame_queue) = MostRecentSuccessful(frame_queue)]_vars

\* stop_capture has returned and start_continuous_capture was not called since.
Stopped == cpc = "idle" /\ stop_event /\ ~is_capturing

\* C4: after stop_capture returns the queue is empty, and stays empty until
\* the next start_continuous_capture: no frame is enqueued any more.
C4_StoppedQueueEmpty == Stopped => frame_queue = <<>>

\* How many statements of the loop a thread is away from leaving it once the
\* stop event is set.
StepsToExit(pc) ==
    CASE pc = "capture" -> 6 [] pc = "put" -> 5 [] pc = "evict" -> 4
      [] pc = "reput" -> 3 [] pc = "wait" -> 2 [] pc = "loop" -> 1
      [] OTHER -> 0

\* stop_capture has been called since thread t was started, and t still
\* runs.  The flag _is_capturing is raised when t is started (line 344) and
\* lowered by stop_capture alone (line 363): it is down, or
\* start_continuous_capture has raised it again for the thread it is about to
\* start in t's place, or it has started that thread.
StopRequestedSince(t) ==
    /\ IsAlive(t)
    /\ \/ ~is_capturing
       \/ cpc = "start_spawn"
       \/ capture_thread # t

\* In this step thread t moves on towards the exit of the loop, if it moves,
\* and no time passes for it in a wait.
TowardsExit(t) ==
    /\ tpc'[t] # tpc[t] => StepsToExit(tpc'[t]) < StepsToExit(tpc[t])
    /\ tslept'[t] => tslept[t]

\* The queue operations of the loop never block, and a thread that finds
\* the stop event set always has a step to take outside the backend call.
NeverBlocks ==
    \A t \in Threads :
        /\ tpc[t] \in {"put", "evict", "reput"} => ENABLED ThreadStep(t)
        /\ (stop_event /\ IsAlive(t) /\ tpc[t] # "capture") => ENABLED ThreadStep(t)

\* C5: once stop is requested, the capture thread finishes at most the
\* iteration it is in and leaves the loop: every step it takes from then on
\* brings it closer to the exit (it starts no new capture), no time passes
\* for it in the wait, and it never blocks on the frame queue, full or not.
C5_StopObservedThreadTerminates ==
    /\ []NeverBlocks
    /\ [][\A t \in Threads : StopRequestedSince(t) => TowardsExit(t)]_vars

\* What holds of the same thread as long as the stop event stays set: it
\* moves towards the exit without blocking and without sleeping.
StopObservedWhileSet ==
    /\ []NeverBlocks
    /\ [][\A t \in Threads : stop_event => TowardsExit(t)]_vars

\* Thread t's capture attempt fails in this step: the backend raised, or
\* returned a result with success = False.
CaptureFails(t) ==
    /\ tpc[t] = "capture"
    /\ \/ tpc'[t] = "wait"
       \/ tpc'[t] = "put" /\ ~tresult'[t].success

\* The second put_nowait of thread t raises queue.Full in this step.
PutAgainRaises(t) ==
    /\ tpc[t] = "reput"
    /\ tpc'[t] # "reput"
    /\ QueueFull(frame_queue)

\* C6: a failed capture attempt, or an exception raised inside the loop body,
\* increments error_count and does not end the loop; a thread leaves the loop
\* only by finding the stop event set at the loop test, however many attempts
\* failed.
C6_FailureNeverEndsLoop ==
    [][\A t \in Threads :
         /\ (CaptureFails(t) \/ PutAgainRaises(t)) =>
              error_count' = error_count + 1 /\ IsAlive(t)'
         /\ (tpc[t] # "done" /\ tpc'[t] = "done") =>
              tpc[t] = "loop" /\ stop_event]_vars

\* C6 witness: after two failed attempts a thread is attempting a capture again.
C6_Witness ==
    /\ error_count >= 2
    /\ ~stop_event
    /\ \E t \in Threads : tpc[t] = "capture"

(***************************************************************************)
(*                    Properties of the HandEvaluator                      *)
(***************************************************************************)

\* The order the specification gives HandRank: category first, then the
\* tie-break vector lexicographically.
RankBelow(a, b) ==
    \/ a.category < b.category
    \/ /\ a.category = b.category
       /\ \E k \in 1..Len(b.rank_values) :
            /\ \A l \in 1..(k - 1) :
                 l <= Len(a.rank_values) /\ a.rank_values[l] = b.rank_values[l]
            /\ \/ k > Len(a.rank_values)
               \/ a.rank_values[k] < b.rank_values[k]

\* r is the maximum of the set S of HandRanks.
IsMaximum(r, S) == r \in S /\ \A x \in S : ~RankBelow(r, x)

\* The five-card sublists of a hand.
FiveCardSubsets(hand) ==
    {[k \in 1..5 |-> hand[SortedAsc(S)[k]]] :
        S \in {T \in SUBSET (1..Len(hand)) : Cardinality(T) = 5}}

\* C7: for 6 or 7 distinct cards the evaluation returns the maximum, under
\* the HandRank order, of the 5-card evaluations of all five-card subsets:
\* evaluate_hand on the card strings, and _evaluate_6/7_cards on the encoded
\* cards.
C7_BestOfFiveCardSubsets ==
    Len(cards) \in {6, 7} =>
      /\ rank # NoRank =>
           IsMaximum(rank, {evaluate_hand(h) : h \in FiveCardSubsets(cards)})
      /\ int_rank # NoRank =>
           IsMaximum(int_rank,
                     {evaluate_5_cards(Encoded(h)) : h \in FiveCardSubsets(cards)})

\* C7 witness: seven cards were evaluated, as strings and as encoded cards,
\* and the best five of the encoded cards are four of a kind, which not
\* every five of them are.
C7_Witness ==
    /\ Len(cards) = 7
    /\ rank \notin {NoRank, ValueError}
    /\ int_rank # NoRank
    /\ int_rank.category = 7
    /\ \E h \in FiveCardSubsets(cards) : evaluate_5_cards(Encoded(h)).category < 7

\* The canonical poker category of five card strings.
CanonicalCategory(hand) ==
    LET rk(k) == CHOOSE i \in 1..13 : RANKS[i] = hand[k][1]
        ranks == {rk(k) : k \in 1..5}
        n(r) == Cardinality({k \in 1..5 : rk(k) = r})
        flush == \A k \in 2..5 : hand[k][2] = hand[1][2]
        straight ==
            /\ Cardinality(ranks) = 5
            /\ \/ \E lo \in 1..9 : ranks = lo..(lo + 4)
               \/ ranks = {13, 1, 2, 3, 4}
        pairs == Cardinality({r \in ranks : n(r) = 2})
    IN  IF straight /\ flush THEN 8
        ELSE IF \E r \in ranks : n(r) = 4 THEN 7
        ELSE IF (\E r \in ranks : n(r) = 3) /\ pairs = 1 THEN 6
        ELSE IF flush THEN 5
        ELSE IF straight THEN 4
        ELSE IF \E r \in ranks : n(r) = 3 THEN 3
        ELSE IF pairs = 2 THEN 2
        ELSE IF pairs = 1 THEN 1
        ELSE 0

\* C8: for five well-formed card strings evaluate_hand returns the canonical
\* category of the hand (straight flush 8 ... high card 0).
C8_CanonicalCategory ==
    (Len(cards) = 5 /\ rank # NoRank) =>
        rank.category = CanonicalCategory(cards)

\* The hand is the wheel A,2,3,4,5 of mixed suits.
IsWheel(hand) ==
    /\ Len(hand) = 5
    /\ {hand[k][1] : k \in 1..5} = {"A", "2", "3", "4", "5"}
    /\ \E k \in 2..5 : hand[k][2] # hand[1][2]

\* C9: evaluate_hand on the wheel returns category Straight (4) with high
\* card 5 (rank value 3), the lowest of the straights.
C9_WheelIsFiveHighStraight ==
    (rank # NoRank /\ IsWheel(cards)) => rank = HandRank(4, <<3>>)

\* C10: the HandRank comparison is a total order consistent with equality.
\* For the ranks A, B of a comparison and every produced rank C: exactly one
\* of A < B, A == B, B < A; A < B and B < C give A < C; A == B exactly when
\* category and tie-break vector are equal; compare_hands reports that order.
C10_TotalOrder ==
    (rank1 # NoRank /\ rank2 # NoRank) =>
      LET A == rank1
          B == rank2
          same == A.category = B.category /\ A.rank_values = B.rank_values
      IN  /\ HandRankEq(A, B) <=> same
          /\ HandRankLt(A, B) => ~HandRankEq(A, B) /\ ~HandRankLt(B, A)
          /\ HandRankLt(A, B) \/ HandRankEq(A, B) \/ HandRankLt(B, A)
          /\ \A C \in ProducedRanks :
               (HandRankLt(A, B) /\ HandRankLt(B, C)) => HandRankLt(A, C)
          /\ compare_result = (IF HandRankLt(B, A) THEN 1
                               ELSE IF HandRankLt(A, B) THEN -1 ELSE 0)

\* C10 witness: two ranks of one category told apart by the tie-break vector.
C10_Witness ==
    /\ rank1 # NoRank /\ rank2 # NoRank
    /\ rank1.category = rank2.category
    /\ rank1.rank_values # rank2.rank_values
    /\ compare_result = -1

\* The 52 card strings.
FiftyTwoCards == {<<RANKS[i], SUITS[j]>> : i \in 1..13, j \in 1..4}

\* The input is 5 to 7 well-formed cards.
WellFormedHand(hand) ==
    /\ Len(hand) \in 5..7
    /\ \A k \in 1..Len(hand) : hand[k] \in FiftyTwoCards

\* C11: evaluate_hand rejects with an explicit error every input that is not
\* 5 to 7 well-formed cards (too few cards, more than 7, a string that is
\* none of the 52 cards) and never returns a HandRank for it.
C11_RejectsInvalidInput ==
    (rank # NoRank /\ ~WellFormedHand(cards)) => rank = ValueError

(***************************************************************************)
(*                   Properties of the EquityCalculator                    *)
(***************************************************************************)

\* The HandRank the Hand Ranking Engine gives the best five of the seven
\* cards of a player in the last trial.
BestHandRank(hand) == evaluate_7_cards(Encoded(hand \o board_cards))

\* C12: in every trial the outcome is decided by the Hand Ranking Engine's
\* order on the best 5-of-7 hands: the trial is scored as a win iff the
\* player's HandRank is strictly greater than every opponent's, and as a tie
\* iff it is not below any opponent's and equals one of them.
C12_TrialDecidedByHandRank ==
    (trial >= 1 /\ equity = NotReturned) =>
      LET mine == BestHandRank(hole_cards)
          theirs == {BestHandRank(opponents_cards[i]) : i \in 1..Len(opponents_cards)}
      IN  /\ (player_strength > max_opponent_strength)
                <=> \A r \in theirs : HandRankLt(r, mine)
          /\ (player_strength = max_opponent_strength)
                <=> /\ \A r \in theirs : ~HandRankLt(mine, r)
                    /\ \E r \in theirs : HandRankEq(mine, r)

\* C13: calculate_equity returns (wins + 0.5 ties) / trials with
\* wins + ties <= trials, a probability in [0, 1], for every pair of hole
\* cards, 0 to 4 community cards, every opponent count and every configured
\* trial count.
C13_EquityIsProbability ==
    equity # NotReturned =>
      /\ equity.den > 0
      /\ 0 <= equity.num
      /\ equity.num <= equity.den
      /\ Len(hole_cards) = 2 =>
            /\ equity.num = 2 * wins + ties
            /\ equity.den = 2 * num_simulations
            /\ trial = num_simulations
            /\ wins + ties <= trial

(***************************************************************************)
(*                   Properties of the detection fusion                    *)
(***************************************************************************)

\* The (rank, suit) identities among the detections of a list.
Identities(dets) == {card_string(dets[k]) : k \in 1..Len(dets)}

\* The detections of a list that show card c, in the order of the list.
OfCard(dets, c) ==
    LET Shows(d) == card_string(d) = c IN SelectSeq(dets, Shows)

\* The centres of any two detections of the list are within the threshold
\* of each other.
MutuallyClose(dets) ==
    \A i, j \in 1..Len(dets) :
        /\ Abs(dets[i].position[1] - dets[j].position[1]) < proximity_threshold
        /\ Abs(dets[i].position[2] - dets[j].position[2]) < proximity_threshold

C15_IdentitiesNeverMix ==
    merged =>
      /\ Identities(final_detections) = Identities(detections)
      /\ \A c \in Identities(detections) :
            OfCard(final_detections, c) = merge_detections(OfCard(detections, c))

\* C15 witness: two detections of different cards at the same place came
\* out as two detections with their confidences unchanged.
C15_Witness ==
    /\ merged
    /\ Len(detections) = 2
    /\ card_string(detections[1]) # card_string(detections[2])
    /\ detections[1].position = detections[2].position
    /\ final_detections = detections

\* C16: for every input list and order the output never holds two detections
\* of the same (rank, suit) within the proximity threshold of each other.
C16_NoDuplicatesInOutput ==
    merged =>
      \A i, j \in 1..Len(final_detections) :
        i # j => ~SameCardAndClose(final_detections[i], final_detections[j])

(***************************************************************************)
(*                   Properties of the analysis cycle                      *)
(***************************************************************************)

\* analyze_hand returned the safe fold of its exception handler.
AnalysisFailed == analysis.recommendation.reasoning = "Analysis error"

\* C17: the recommendation generator maps (equity, pot odds) to one action
\* and confidence: equity > 0.70 gives Bet 0.90; 0.50 < equity <= 0.70 gives
\* Call 0.70; equity <= 0.50 with pot odds > 0.30 gives Call 0.60; otherwise
\* Fold 0.80; the boundary values fall in the lower branch.
C17_BaselinePolicy ==
    (dpc = "analysed" /\ ~AnalysisFailed) =>
      LET e == analysis.hand_strength.equity
          odds == analysis.pot_odds
          rec == analysis.recommendation
      IN  /\ e > 70 => rec.action = "bet" /\ rec.confidence = 90
          /\ (50 < e /\ e <= 70) => rec.action = "call" /\ rec.confidence = 70
          /\ (e <= 50 /\ odds.num * 10 > 3 * odds.den) =>
                rec.action = "call" /\ rec.confidence = 60
          /\ (e <= 50 /\ odds.num * 10 <= 3 * odds.den) =>
                rec.action = "fold" /\ rec.confidence = 80

\* C17 witness: equity exactly 0.70 was analysed and gave Call with 0.70.
C17_Witness ==
    /\ dpc = "analysed"
    /\ ~AnalysisFailed
    /\ analysis.hand_strength.equity = 70
    /\ analysis.recommendation.action = "call"
    /\ analysis.recommendation.confidence = 70

\* C18: the urgency of a decision is High if the action is AllIn or
\* equity >= 0.95 or equity <= 0.05; else Medium if confidence > 0.8 or pot
\* odds > 0.4; else Low if confidence > 0.6; else Critical.  In particular
\* equity 0.95 with pot odds 0.2 gives Bet, 0.90 and High.
C18_UrgencyLevels ==
    dpc = "decided" =>
      decision.urgency =
        (IF \/ decision.recommended_action = "all_in"
            \/ decision.equity >= 95
            \/ decision.equity <= 5
           THEN "high"
         ELSE IF \/ decision.confidence > 80
                 \/ decision.pot_odds.num * 10 > 4 * decision.pot_odds.den
           THEN "medium"
         ELSE IF decision.confidence > 60 THEN "low"
         ELSE "critical")

\* C19: an exception raised inside the analysis cycle does not reach the
\* caller: the cycle still yields a Decision, and when something failed the
\* Decision is Fold with confidence 1.0 and an error rationale.
C19_CycleAlwaysYieldsDecision ==
    /\ dpc # "raised"
    /\ (dpc = "decided" /\ AnalysisFailed) =>
          /\ decision.recommended_action = "fold"
          /\ decision.confidence = 100
          /\ decision.reasoning = "Analysis error"

\* C20: when pot size or current bet is None the analysis raises no error
\* and gives a recommendation whose confidence is never higher than the
\* confidence for the same hand (the same equity result) with the values
\* present.
C20_MissingValuesDegradeConfidence ==
    (/\ dpc = "analysed"
     /\ \/ ~game_state.game_info.pot_size.some
        \/ ~game_state.game_info.current_bet.some) =>
      LET outcome == [raised |-> AnalysisFailed,
                      value |-> analysis.hand_strength.equity]
      IN  /\ analysis.recommendation.action # "none"
          /\ \A p \in PotChoices, b \in BetChoices :
                (p.some /\ b.some) =>
                  analysis.recommendation.confidence <=
                    analyze_hand(GameState(game_state.timestamp,
                                           game_state.hole_cards,
                                           GameInfo(p, b)),
                                 outcome).recommendation.confidence

\* Threads that are capturing a frame or enqueuing one.
AtWork == {t \in Threads : tpc[t] \in {"capture", "put", "evict", "reput"}}

\* C28: after any sequence of start_continuous_capture and stop_capture
\* calls at most one capture thread is capturing and enqueuing frames at any
\* time, also when the previous thread was inside a capture attempt as the
\* join timeout elapsed; and whenever is_capturing() is false no capture
\* thread enqueues frames.
C28_AtMostOneCaptureThread ==
    /\ Cardinality(AtWork) <= 1
    /\ (cpc = "idle" /\ ~is_capturing) =>
          \A t \in Threads : tpc[t] \notin {"put", "evict", "reput"}

\* The cards a trial dealt: those of the opponents, then those added to
\* the board.
DealtCards ==
    LET Flatten[i \in 0..Len(opponents_cards)] ==
          IF i = 0 THEN <<>> ELSE Flatten[i - 1] \o opponents_cards[i]
    IN  Flatten[Len(opponents_cards)]
          \o SubSeq(board_cards, Len(community_cards) + 1, Len(board_cards))

Tally(dets) ==
    {<<card_string(dets[k]), dets[k].confidence,
       Cardinality({l \in 1..Len(dets) :
                      /\ card_string(dets[l]) = card_string(dets[k])
                      /\ dets[l].confidence = dets[k].confidence})>> :
        k \in 1..Len(dets)}

\* C30: the result of the fusion does not depend on the order of the input
\* detections: every permutation of the input gives the same number of
\* detections with the same card identities and confidences.
C30_OrderIndependent ==
    merged =>
      \A f \in Permutations(1..Len(detections)) :
        LET listed == [k \in 1..Len(detections) |-> detections[f[k]]]
            out == merge_detections(listed)
        IN  /\ Len(out) = Len(final_detections)
            /\ Tally(out) = Tally(final_detections)

(***************************************************************************)
(*                      Properties of detect_cards                         *)
(***************************************************************************)

\* C21: detect_cards returns, for every method and input, a list sorted by
\* non-increasing confidence with no detection below the minimum confidence
\* 0.7; when the detectors produce nothing the result is the empty list.
C21_SortedAndAboveMinimum ==
    detected =>
      /\ \A k \in 1..(Len(filtered_detections) - 1) :
            filtered_detections[k].confidence
              >= filtered_detections[k + 1].confidence
      /\ \A k \in 1..Len(filtered_detections) :
            filtered_detections[k].confidence >= 70
      /\ (yolo_detections = <<>> /\ template_detections = <<>>) =>
            filtered_detections = <<>>

\* C21 witness: the YOLO detector reported confidences 0.60, 0.80 and 0.95
\* in this order; the call returned two detections, 0.95 before 0.80.
C21_Witness ==
    /\ detected
    /\ method = "yolo"
    /\ Len(yolo_detections) = 3
    /\ yolo_detections[1].confidence = 60
    /\ yolo_detections[2].confidence = 80
    /\ yolo_detections[3].confidence = 95
    /\ Len(filtered_detections) = 2
    /\ filtered_detections[1].confidence = 95
    /\ filtered_detections[2].confidence = 80

\* C23: in hybrid mode the detections below the minimum confidence are
\* removed before grouping: the output equals the sorted fusion of the
\* detections of at least 0.7.
C23_FilteredBeforeGrouping ==
    (detected /\ ~(method = "yolo" /\ yolo_detector) /\ method # "template") =>
      filtered_detections =
        SortByConfidence(FilterByConfidence(
          merge_detections(FilterByConfidence(
            (IF yolo_detector THEN yolo_detections ELSE <<>>)
              \o template_detections))))

(***************************************************************************)
(*                 Properties of non-maximum suppression                   *)
(***************************************************************************)

\* Two detections overlap with an IoU above 0.5.
OverlapBeyond(d, e) ==
    LET o == calculate_overlap(d, e) IN 2 * o.num > o.den

\* C24: non-maximum suppression goes through the candidates by falling
\* confidence: the result holds no two detections whose IoU exceeds 0.5,
\* whatever their identities; the highest-confidence candidate is kept; and
\* a candidate is dropped only if it overlaps beyond the threshold a kept
\* candidate of greater or equal confidence.
C24_NonMaxSuppression ==
    suppressed =>
      /\ \A i, j \in 1..Len(filtered) :
            i # j => ~OverlapBeyond(filtered[i], filtered[j])
      /\ \A k \in 1..(Len(filtered) - 1) :
            filtered[k].confidence >= filtered[k + 1].confidence
      /\ candidates # <<>> =>
            /\ filtered # <<>>
            /\ \A k \in 1..Len(candidates) :
                  filtered[1].confidence >= candidates[k].confidence
      /\ \A k \in 1..Len(candidates) :
            \/ \E r \in 1..Len(filtered) : filtered[r] = candidates[k]
            \/ \E r \in 1..Len(filtered) :
                  /\ OverlapBeyond(candidates[k], filtered[r])
                  /\ filtered[r].confidence >= candidates[k].confidence
      /\ \A r \in 1..Len(filtered) :
            \E k \in 1..Len(candidates) : candidates[k] = filtered[r]

\* C24 witness: of three candidates the king of 0.85 overlapping the ace of
\* 0.95 was dropped, and the ace of 0.75 at x = 20, which overlaps only the
\* dropped king, was kept.
C24_Witness ==
    /\ suppressed
    /\ Len(candidates) = 3
    /\ Len(filtered) = 2
    /\ filtered[1] = BoxedDetection(<<"A", "h">>, 95, <<0, 0, 50, 70>>)
    /\ filtered[2] = BoxedDetection(<<"A", "h">>, 75, <<20, 0, 50, 70>>)
    /\ \E k \in 1..3 :
          candidates[k] = BoxedDetection(<<"K", "d">>, 85, <<10, 0, 50, 70>>)

(***************************************************************************)
(*                  Properties of the capture interval                     *)
(***************************************************************************)

\* C22: the capture interval lies within [0.5, 2.0] seconds in every
\* reachable state: after construction with any requested interval and
\* after any set_capture_interval calls, also while capture is running.
C22_IntervalWithinBounds == 50 <= capture_interval /\ capture_interval <= 200

\* C22 witness: while a capture thread is inside a capture attempt the
\* interval stands at the upper limit.
C22_Witness ==
    /\ is_capturing
    /\ InCapture # {}
    /\ capture_interval = 200

(***************************************************************************)
(*                  Properties of the decision history                     *)
(***************************************************************************)

\* C26: after n synthesize_recommendation calls one Decision was produced
\* per call: the history holds the last min(n, max_history) decisions in
\* the order they were made, get_last_decision returns the newest, and
\* stats['decisions_made'] equals the decision counter equals n.
C26_OneDecisionPerCall ==
    /\ decisions_made = calls
    /\ decision_counter = calls
    /\ Len(decisions) = (IF calls < max_history THEN calls ELSE max_history)
    /\ \A k \in 1..Len(decisions) :
          decisions[k].decision_id = calls - Len(decisions) + k
    /\ calls >= 1 => last_decision = decisions[Len(decisions)]

\* The cycle that missed the 500 ms target: a valid frame whose total time
\* was above 500.
MissedTarget ==
    /\ last.frame = "ok"
    /\ last.hole_cards >= 2 /\ last.pot_size /\ last.confidence_score > 50
    /\ last.total_time > 500

\* The recorded operation that missed a target: its time was above the
\* target or the accuracy it was given was below the target.
OperationMissed ==
    \/ last_op.processing_time_ms > 500
    \/ last_op.accuracy.some /\ last_op.accuracy.v < 995

\* C27: a performance-target miss never blocks output.  A cycle whose total
\* time exceeds 500 ms logs a warning and still outputs its decision; a
\* record_operation call whose time is above target or whose accuracy is
\* below target returns normally unless the resource read failed, so that
\* neither the miss nor a raising alert callback leaves the monitor as an
\* exception.
C27_TargetMissNeverBlocks ==
    /\ MissedTarget => (last.warned /\ last.decided)
    /\ (last.raised /\ MissedTarget) => last.psutil_failed
    /\ (OperationMissed /\ ~last_op.returned) => last_op.psutil_failed

\* C29: the main loop analyses and decides only for a dequeued frame whose
\* capture succeeded with an image and whose game state has at least two
\* hole cards, a pot size and a confidence score above 0.5; every decision
\* comes with its own dequeued frame, one at most per cycle; and while the
\* system is running a cycle that raised leaves the loop running.
C29_DecisionsOnlyForValidFrames ==
    /\ [](/\ (last.analysed \/ last.decided) =>
                 /\ last.frame = "ok"
                 /\ last.hole_cards >= 2
                 /\ last.pot_size
                 /\ last.confidence_score > 50
          /\ decisions_out <= frames_dequeued
          /\ (is_running /\ last.raised) => lpc = "loop")
    /\ [][/\ decisions_out' <= decisions_out + 1
          /\ decisions_out' > decisions_out =>
                 frames_dequeued' = frames_dequeued + 1]_vars

\* A frame that gave no decision, then a valid one whose decision was output
\* and whose monitor call raised, with the loop still running.
C29_Witness ==
    /\ is_running /\ lpc = "loop"
    /\ frames_dequeued = 2 /\ decisions_out = 1
    /\ last.decided /\ last.raised

=============================================================================
